---- MODULE Spec2Model ----
(***************************************************************************)
(* CASToR datafile tools of pet-imaging-tools                              *)
(* (pet_imaging_tools/castor_datafile): the header codec, the schema       *)
(* resolver, the record codec, the streaming writer and                    *)
(* update_castor_datafile with the tools built on it.                      *)
(*                                                                         *)
(* A header text is a sequence of atoms.  An atom stands for one character *)
(* or for a run of non-whitespace characters that the code never splits    *)
(* (a key such as "Data mode", a value token such as "list-mode").  NL is  *)
(* the line terminator and SP a blank; both are whitespace for the regular *)
(* expressions of the code, every other atom is not.                       *)
(* A binary file is a sequence of bytes (0..255).                          *)
(***************************************************************************)
EXTENDS Integers, Sequences, FiniteSets, TLC

\* ------------------------------------------------------------------------
\* Text
\* ------------------------------------------------------------------------
NL == "\n"
SP == " "
COLON == ":"

\* Python's None.  A value read from a header is a non-empty token, so the
\* empty token is free to stand for "no value".
None == << >>

IsWs(a) == a \in {SP, NL}

\* `^` under re.MULTILINE: the start of the text or just after a newline.
LineStart(t, p) == p = 1 \/ (p > 1 /\ p <= Len(t) + 1 /\ t[p - 1] = NL)

\* `$` under re.MULTILINE: the end of the text or just before a newline.
LineEnd(t, p) == p = Len(t) + 1 \/ (p <= Len(t) /\ t[p] = NL)

\* `\s*` from position p: the first position at or after p that holds no
\* whitespace (Len(t) + 1 when the text ends first).
RECURSIVE SkipWs(_, _)
SkipWs(t, p) == IF p <= Len(t) /\ IsWs(t[p]) THEN SkipWs(t, p + 1) ELSE p

\* `\S+` from position p: the first position at or after p that holds
\* whitespace (Len(t) + 1 when the text ends first).
RECURSIVE SkipToken(_, _)
SkipToken(t, p) == IF p <= Len(t) /\ ~IsWs(t[p]) THEN SkipToken(t, p + 1) ELSE p

\* `.+` from position p: the end of the line that p is on.
RECURSIVE EndOfLine(_, _)
EndOfLine(t, p) == IF p <= Len(t) /\ t[p] # NL THEN EndOfLine(t, p + 1) ELSE p

\* The last position e in from..to at which `$` matches, 0 when there is none.
RECURSIVE LastLineEnd(_, _, _)
LastLineEnd(t, from, to) ==
    IF to < from THEN 0
    ELSE IF LineEnd(t, to) THEN to
    ELSE LastLineEnd(t, from, to - 1)

\* One attempt of  ^{field}\s*:\s*(\S+)\s*$  at position p.
\* ok: whether it matches; val: the captured token; end: where the match ends.
FieldMatchAt(t, field, p) ==
    LET colon == SkipWs(t, p + 1)
        tok   == SkipWs(t, colon + 1)
        tokE  == SkipToken(t, tok)
        wsE   == SkipWs(t, tokE)
        e     == LastLineEnd(t, tokE, wsE)
    IN  IF /\ p <= Len(t)
           /\ LineStart(t, p)
           /\ t[p] = field
           /\ colon <= Len(t)
           /\ t[colon] = COLON
           /\ tokE > tok
           /\ e # 0
        THEN [ok |-> TRUE, val |-> SubSeq(t, tok, tokE - 1), end |-> e]
        ELSE [ok |-> FALSE, val |-> None, end |-> p]

\* re.findall(rf'^{field}\s*:\s*(\S+)\s*$', cdh_content, re.MULTILINE):
\* the captured tokens of the non-overlapping matches, left to right.
RECURSIVE FindAllFrom(_, _, _)
FindAllFrom(t, field, p) ==
    IF p > Len(t) THEN << >>
    ELSE LET m == FieldMatchAt(t, field, p)
         IN  IF m.ok
             THEN << m.val >> \o FindAllFrom(t, field, m.end)
             ELSE FindAllFrom(t, field, p + 1)

\* ------------------------------------------------------------------------
\* Header codec (transformation.py)
\* ------------------------------------------------------------------------
Ok(v) == [exc |-> "none", val |-> v]
Raise(e) == [exc |-> e, val |-> None]

read_cdh_field(cdh_content, field) ==
    LET field_matches == FindAllFrom(cdh_content, field, 1)
        number_of_matches == Len(field_matches)
    IN  IF number_of_matches = 0 THEN Ok(None)
        ELSE IF number_of_matches > 1 THEN Raise("ValueError")
        ELSE Ok(field_matches[1])

\* re.sub(f'^{field}.+$', f'{field}: {new_value}', cdh_content, re.MULTILINE);
\* new_value is a sequence of atoms.  re.sub takes its second argument for
\* a template: the atom GROUP0, the escape \g<0>, stands for the text that
\* the pattern matched and is expanded to it.
GROUP0 == "\\g<0>"

RECURSIVE ExpandTemplate(_, _)
ExpandTemplate(repl, matched) ==
    IF Len(repl) = 0 THEN << >>
    ELSE (IF repl[1] = GROUP0 THEN matched ELSE << repl[1] >>)
             \o ExpandTemplate(Tail(repl), matched)

RECURSIVE ReplaceFrom(_, _, _, _)
ReplaceFrom(t, field, new_value, p) ==
    IF p > Len(t) THEN << >>
    ELSE IF /\ LineStart(t, p)
            /\ t[p] = field
            /\ EndOfLine(t, p + 1) > p + 1
         THEN ExpandTemplate(<< field, COLON, SP >> \o new_value,
                             SubSeq(t, p, EndOfLine(t, p + 1) - 1))
                  \o ReplaceFrom(t, field, new_value, EndOfLine(t, p + 1))
         ELSE << t[p] >> \o ReplaceFrom(t, field, new_value, p + 1)

replace_cdh_field(cdh_content, field, new_value) ==
    ReplaceFrom(cdh_content, field, new_value, 1)


\* int(token): the integer a token denotes; tokens that int() rejects raise
\* ValueError.  IntAtoms are the integer literals of the model.
IntAtoms == {"0", "1", "2"}

IntOfAtom(a) == CASE a = "0" -> 0 [] a = "1" -> 1 [] a = "2" -> 2 [] OTHER -> 0

int(token) ==
    IF Len(token) = 1 /\ token[1] \in IntAtoms
    THEN Ok(IntOfAtom(token[1]))
    ELSE Raise("ValueError")

\* CASToRCDHKey
DATA_FILENAME == "Data filename"
NUMBER_OF_EVENTS == "Number of events"
DATA_MODE == "Data mode"
MAX_LINES == "Maximum number of lines per event"
ATTENUATION_CORRECTION_FLAG == "Attenuation correction flag"
SCATTER_CORRECTION_FLAG == "Scatter correction flag"
RANDOM_CORRECTION_FLAG == "Random correction flag"
NORMALIZATION_CORRECTION_FLAG == "Normalization correction flag"
TOF_INFORMATION_FLAG == "TOF information flag"

\* Column types
UINT32_T == "<i4"
FLTNBDATA == "<f4"

\* FLAGS: the mapping from flag to column, in the order the dict literal lists it.
FLAGS == <<
    [flag |-> ATTENUATION_CORRECTION_FLAG,   column |-> "a",   type |-> FLTNBDATA],
    [flag |-> SCATTER_CORRECTION_FLAG,       column |-> "s",   type |-> FLTNBDATA],
    [flag |-> RANDOM_CORRECTION_FLAG,        column |-> "r",   type |-> FLTNBDATA],
    [flag |-> NORMALIZATION_CORRECTION_FLAG, column |-> "n",   type |-> FLTNBDATA],
    [flag |-> TOF_INFORMATION_FLAG,          column |-> "TOF", type |-> FLTNBDATA] >>

FlagKeys == { FLAGS[k].flag : k \in 1..Len(FLAGS) }

\* FLAGS[flag]
FlagEntry(flag) == FLAGS[CHOOSE k \in 1..Len(FLAGS) : FLAGS[k].flag = flag]

is_list_mode(cdh_content) ==
    LET data_mode == read_cdh_field(cdh_content, DATA_MODE)
    IN  IF data_mode.exc # "none" THEN data_mode
        ELSE IF data_mode.val = None THEN Raise("ValueError")
        ELSE [exc |-> "none", val |-> (data_mode.val = << "list-mode" >>)]

check_flag(cdh_content, flag) ==
    LET f == read_cdh_field(cdh_content, flag)
    IN  IF f.exc # "none" THEN f
        ELSE IF f.val = None THEN [exc |-> "none", val |-> FALSE]
        ELSE LET n == int(f.val)
             IN  IF n.exc # "none" THEN n
                 ELSE [exc |-> "none", val |-> (n.val # 0)]

\* A Python dict is a sequence of [key, value] entries in insertion order.
\* get_flags fills it by iterating FLAGS, and stops at the first check_flag
\* that raises.
RECURSIVE GetFlagsFrom(_, _, _)
GetFlagsFrom(cdh_content, k, flags) ==
    IF k > Len(FLAGS) THEN Ok(flags)
    ELSE LET c == check_flag(cdh_content, FLAGS[k].flag)
         IN  IF c.exc # "none" THEN c
             ELSE GetFlagsFrom(cdh_content, k + 1,
                      Append(flags, [key |-> FLAGS[k].flag, value |-> c.val]))

get_flags(cdh_content) == GetFlagsFrom(cdh_content, 1, << >>)

max_nb_of_lines_per_event(cdh_content) ==
    LET mnolpe == read_cdh_field(cdh_content, MAX_LINES)
    IN  IF mnolpe.exc # "none" THEN mnolpe
        ELSE IF mnolpe.val = None THEN Ok(1)
        ELSE int(mnolpe.val)

\* A path is a sequence of atoms: names separated by SLASH.
SLASH == "/"

\* The position of the last SLASH of a path, 0 when it has none.
RECURSIVE LastSlash(_, _)
LastSlash(path, p) ==
    IF p = 0 THEN 0
    ELSE IF path[p] = SLASH THEN p
    ELSE LastSlash(path, p - 1)

\* os.path.dirname(path) and os.path.split(path)[1]
dirname(path) ==
    LET k == LastSlash(path, Len(path))
    IN  IF k <= 1 THEN SubSeq(path, 1, k) ELSE SubSeq(path, 1, k - 1)

basename(path) == SubSeq(path, LastSlash(path, Len(path)) + 1, Len(path))

\* os.path.join(a, b)
join(a, b) ==
    IF Len(b) > 0 /\ b[1] = SLASH THEN b
    ELSE IF Len(a) = 0 \/ a[Len(a)] = SLASH THEN a \o b
    ELSE a \o << SLASH >> \o b

\* get_cdf_path: os.path.join(dirname, None) raises TypeError.
get_cdf_path(cdh_content, cdh_filename) ==
    LET cdf_filename == read_cdh_field(cdh_content, DATA_FILENAME)
        cdh_dirname == dirname(cdh_filename)
    IN  IF cdf_filename.exc # "none" THEN cdf_filename
        ELSE IF cdf_filename.val = None THEN Raise("TypeError")
        ELSE Ok(join(cdh_dirname, cdf_filename.val))

\* ------------------------------------------------------------------------
\* Schema resolver
\* ------------------------------------------------------------------------
\* get_dtype: the list of (name, type) pairs handed to np.dtype.  The loop
\* runs over flags.items(), i.e. over the entries of the dict in its own order.
RECURSIVE DtypeOfEntries(_, _)
DtypeOfEntries(flags, k) ==
    IF k > Len(flags) THEN << >>
    ELSE (IF flags[k].value
          THEN << [name |-> FlagEntry(flags[k].key).column,
                   type |-> FlagEntry(flags[k].key).type] >>
          ELSE << >>) \o DtypeOfEntries(flags, k + 1)

\* A variant of get_dtype against which the layout of a record is tried: the
\* columns of the flags come last.
get_dtype_flags_last(flags) ==
    << [name |-> "t", type |-> UINT32_T],
       [name |-> "c1", type |-> UINT32_T], [name |-> "c2", type |-> UINT32_T] >>
        \o DtypeOfEntries(flags, 1)

get_dtype(flags) ==
    << [name |-> "t", type |-> UINT32_T] >>
        \o DtypeOfEntries(flags, 1)
        \o << [name |-> "c1", type |-> UINT32_T], [name |-> "c2", type |-> UINT32_T] >>

\* Bytes of one element of either column type
ItemBytes == 4

\* np.dtype(...).itemsize
itemsize(dtype) == ItemBytes * Len(dtype)

\* ------------------------------------------------------------------------
\* Record codec
\* ------------------------------------------------------------------------
\* The model's state.  np_strict is the NumPy build: whether converting a
\* Python integer outside the range of int32 raises OverflowError (NumPy 2)
\* or wraps around (NumPy 1).
VARIABLES
    np_strict,      \* the NumPy build (see above)
    fs,             \* the file system: path -> [exists, data]
    fs0,            \* history: the file system before the run
    args,           \* the tool that runs and its arguments
    pc,             \* where the run is
    exc,            \* how the run ended: "none" or the exception that ended it
    raised,         \* the exception first raised inside the run ("none" if none)
    cdh_content,    \* the header text read from cdh_path
    cdf_dt,         \* the dtype derived from the flags of the header
    cdf_dd,         \* the rows decoded from the input binary
    nread,          \* rows taken from cdf_dd.itertuples() so far
    progress,       \* the tqdm counter
    calls,          \* history: what the row callback did, call by call
    written,        \* history: [index, row] of every row handed to write_row
    call,           \* a pure function applied to an input: [op, in, out]
    suspended       \* the run of a second, concurrent invocation while the
                    \* other one takes its steps (NoInvocation if there is none)

vars == << np_strict, fs, fs0, args, pc, exc, raised, cdh_content, cdf_dt, cdf_dd, nread,
           progress, calls, written, call, suspended >>

NoInvocation == [pc |-> "none"]

\* An integer is [hi, lo] and denotes hi * 2^16 + lo, 0 <= lo < 2^16 (the
\* values of interest reach 2^32 - 1).  A float is [bits, exact]: bits are
\* the four bytes of the nearest float32, least significant first, and exact
\* tells whether the float is that float32 (FALSE: a double that float32
\* only approximates).
Half == 65536
HalfSigned == 32768
ByteRange == 256

PyInt(n) == [hi |-> 0, lo |-> n]

\* np.int32(v), i.e. np.dtype('<i4').type(v)
np_int32(v) ==
    IF v.hi >= -HalfSigned /\ v.hi < HalfSigned THEN Ok(v)
    ELSE IF np_strict THEN Raise("OverflowError")
    ELSE Ok([hi |-> IF v.hi >= HalfSigned THEN v.hi - Half ELSE v.hi + Half,
             lo |-> v.lo])

\* np.float32(v), i.e. np.dtype('<f4').type(v)
np_float32(v) == [bits |-> v.bits, exact |-> TRUE]

\* The four bytes of an int32, least significant first (two's complement).
Int32Bytes(v) ==
    LET hu == IF v.hi < 0 THEN v.hi + Half ELSE v.hi
    IN  << v.lo % ByteRange, v.lo \div ByteRange,
           hu % ByteRange, hu \div ByteRange >>

\* The int32 that four bytes denote.
Int32Of(b) ==
    LET hu == b[3] + ByteRange * b[4]
    IN  [hi |-> IF hu >= HalfSigned THEN hu - Half ELSE hu,
         lo |-> b[1] + ByteRange * b[2]]

\* The loop of write_row over FLAGS.values(): every column that the row has
\* is written as a float32, in the order of FLAGS.
RECURSIVE WriteFlagColumns(_, _, _)
WriteFlagColumns(row, k, file) ==
    IF k > Len(FLAGS) THEN file
    ELSE WriteFlagColumns(row, k + 1,
             IF FLAGS[k].column \in DOMAIN row
             THEN file \o np_float32(row[FLAGS[k].column]).bits
             ELSE file)

\* One integer column of write_row: row[name] converted and written; a row
\* without the column raises KeyError with nothing more written.
WriteIntColumn(row, name, file) ==
    IF name \notin DOMAIN row THEN [exc |-> "KeyError", file |-> file]
    ELSE LET v == np_int32(row[name])
         IN  IF v.exc # "none" THEN [exc |-> v.exc, file |-> file]
             ELSE [exc |-> "none", file |-> file \o Int32Bytes(v.val)]

\* A variant of write_row against which the properties of order are tried:
\* the bytes of the row are put in front of the file instead of at its end.
write_row_in_front(row, output_cdf_file) ==
    LET t == WriteIntColumn(row, "t", << >>)
    IN  IF t.exc # "none" THEN [exc |-> t.exc, file |-> output_cdf_file]
        ELSE LET c1 == WriteIntColumn(row, "c1", WriteFlagColumns(row, 1, t.file))
                 c2 == WriteIntColumn(row, "c2", c1.file)
             IN  IF c1.exc # "none" THEN [exc |-> c1.exc, file |-> output_cdf_file]
                 ELSE [exc |-> c2.exc, file |-> c2.file \o output_cdf_file]

\* write_row(row, output_cdf_file): the file after the call, and the
\* exception that ended the call (if any).
write_row(row, output_cdf_file) ==
    LET t == WriteIntColumn(row, "t", output_cdf_file)
    IN  IF t.exc # "none" THEN t
        ELSE LET c1 == WriteIntColumn(row, "c1", WriteFlagColumns(row, 1, t.file))
             IN  IF c1.exc # "none" THEN c1
                 ELSE WriteIntColumn(row, "c2", c1.file)

\* One element of np.frombuffer(buffer, dt): the record at index k
\* (from 0), as the dict that itertuples()/_asdict() hands to the callback:
\* the row's index plus one entry per field of the dtype.
FieldPos(dt, name) == CHOOSE j \in 1..Len(dt) : dt[j].name = name

DecodeRow(buffer, dt, k) ==
    LET names == { dt[j].name : j \in 1..Len(dt) }
        at(name) == LET j == FieldPos(dt, name)
                        o == k * itemsize(dt) + ItemBytes * (j - 1)
                        b == SubSeq(buffer, o + 1, o + ItemBytes)
                    IN  IF dt[j].type = UINT32_T
                        THEN Int32Of(b)
                        ELSE [bits |-> b, exact |-> TRUE]
    IN  [name \in names \cup {"Index"} |->
            IF name = "Index" THEN PyInt(k) ELSE at(name)]

\* A variant of frombuffer against which the handling of a remainder is
\* tried: the bytes after the last whole element are ignored.
frombuffer_ignoring_remainder(buffer, dt) ==
    Ok([k \in 1..(Len(buffer) \div itemsize(dt)) |-> DecodeRow(buffer, dt, k - 1)])

\* np.frombuffer(cdf_file.read(), dt) as the rows dask iterates:
\* ValueError when the buffer is not a whole number of elements.
frombuffer(buffer, dt) ==
    IF Len(buffer) % itemsize(dt) # 0 THEN Raise("ValueError")
    ELSE Ok([k \in 1..(Len(buffer) \div itemsize(dt)) |->
                DecodeRow(buffer, dt, k - 1)])

\* ------------------------------------------------------------------------
\* Files
\* ------------------------------------------------------------------------
Absent == [exists |-> FALSE, data |-> << >>]
File(data) == [exists |-> TRUE, data |-> data]

Exists(path) == path \in DOMAIN fs /\ fs[path].exists

\* open(path, 'w') and open(path, 'w+b'): the file is created, or emptied
\* when it exists.
OpenForWriting(files, path) == [files EXCEPT ![path] = File(<< >>)]

\* ------------------------------------------------------------------------
\* Reading the input pair
\* ------------------------------------------------------------------------
\* get_dd_from_cdf_file(cdf_path, cdf_dt, chunksize): open(cdf_path, 'rb')
\* raises FileNotFoundError for a missing file.
get_dd_from_cdf_file(cdf_path, dt) ==
    IF ~Exists(cdf_path) THEN Raise("FileNotFoundError")
    ELSE frombuffer(fs[cdf_path].data, dt)

\* get_cdf_and_cdh_content_from_file, lines 355-361: the checks of the
\* header, in the order of the code.  The exception that ends them ("none"
\* if none) and the flags.  sys.exit(message) is the exception
\* SystemExit(message).
Invalid(e) == [exc |-> e, flags |-> << >>]

CheckFlags(flags) ==
    IF flags.exc # "none" THEN Invalid(flags.exc)
    ELSE [exc |-> "none", flags |-> flags.val]

CheckLines(content, mnolpe) ==
    IF mnolpe.exc # "none" THEN Invalid(mnolpe.exc)
    ELSE IF mnolpe.val > 1 THEN Invalid("SystemExit(message)")
    ELSE CheckFlags(get_flags(content))

CheckListMode(content, lm) ==
    IF lm.exc # "none" THEN Invalid(lm.exc)
    ELSE IF ~lm.val THEN Invalid("SystemExit(message)")
    ELSE CheckLines(content, max_nb_of_lines_per_event(content))

CheckHeader(content) == CheckListMode(content, is_list_mode(content))

\* ------------------------------------------------------------------------
\* The callbacks of the tools
\* ------------------------------------------------------------------------
\* text.endswith(os.linesep)
EndsWithLinesep(text) == Len(text) > 0 /\ text[Len(text)] = NL

\* add_normalization_factors.update_cdh
add_normalization_factors_update_cdh(old_cdh) ==
    LET f == read_cdh_field(old_cdh, NORMALIZATION_CORRECTION_FLAG)
    IN  IF f.exc # "none" THEN f
        ELSE IF f.val = << "1" >> THEN Raise("ValueError")
        ELSE Ok(old_cdh \o (IF EndsWithLinesep(old_cdh) THEN << >> ELSE << NL >>)
                    \o << NORMALIZATION_CORRECTION_FLAG, COLON, SP, "1" >>)

\* add_random_factors_jmodular_24m50z.update_cdh
add_random_factors_update_cdh(old_cdh) ==
    LET f == read_cdh_field(old_cdh, RANDOM_CORRECTION_FLAG)
    IN  IF f.exc # "none" THEN f
        ELSE IF f.val = << "1" >> THEN Raise("ValueError")
        ELSE Ok(old_cdh \o (IF EndsWithLinesep(old_cdh) THEN << >> ELSE << NL >>)
                    \o << RANDOM_CORRECTION_FLAG, COLON, SP, "1" >>)

\* f'{number_of_events}' for the numbers of the model: one decimal digit
str(n) == << "0", "1", "2", "3", "4", "5", "6", "7", "8", "9" >>[n + 1]

\* truncate.update_cdh:
\* re.sub(f'^Number of events:.*$', f'Number of events: {number_of_events}',
\*        old_cdh, flags=re.MULTILINE)
RECURSIVE SubNumberOfEvents(_, _, _)
SubNumberOfEvents(t, number_of_events, p) ==
    IF p > Len(t) THEN << >>
    ELSE IF /\ LineStart(t, p)
            /\ t[p] = NUMBER_OF_EVENTS
            /\ p + 1 <= Len(t)
            /\ t[p + 1] = COLON
         THEN << NUMBER_OF_EVENTS, COLON, SP, str(number_of_events) >>
                  \o SubNumberOfEvents(t, number_of_events, EndOfLine(t, p + 2))
         ELSE << t[p] >> \o SubNumberOfEvents(t, number_of_events, p + 1)

truncate_update_cdh(old_cdh) ==
    Ok(SubNumberOfEvents(old_cdh, args.number_of_events, 1))

\* The header callback of the running tool; the default is the identity.
update_cdh(cdh) ==
    IF args.tool = "add_normalization_factors"
    THEN add_normalization_factors_update_cdh(cdh)
    ELSE IF args.tool = "add_random_factors"
    THEN add_random_factors_update_cdh(cdh)
    ELSE IF args.tool = "truncate"
    THEN truncate_update_cdh(cdh)
    ELSE Ok(cdh)

\* nf_df.loc[c1, c2]['n']: nf.lines is the set of [c1, c2, n] lines; a pair
\* the table lacks raises KeyError, which update_row turns into 1.
ONE == [bits |-> << 0, 0, 128, 63 >>, exact |-> TRUE]

NfLookup(nf, c1, c2) ==
    IF \E e \in nf.lines : e.c1 = c1 /\ e.c2 = c2
    THEN (CHOOSE e \in nf.lines : e.c1 = c1 /\ e.c2 = c2).n
    ELSE ONE

\* row[column] = value
SetColumn(row, column, value) ==
    [name \in DOMAIN row \cup {column} |->
        IF name = column THEN value ELSE row[name]]

\* add_normalization_factors.update_row
add_normalization_factors_update_row(row) ==
    SetColumn(row, "n", NfLookup(args.nf, row["c1"], row["c2"]))

\* min(c1, c2) and max(c1, c2) of two integers
IntLeq(a, b) == a.hi < b.hi \/ (a.hi = b.hi /\ a.lo <= b.lo)
min(a, b) == IF IntLeq(a, b) THEN a ELSE b
max(a, b) == IF IntLeq(a, b) THEN b ELSE a

\* random_map[int(pos1)][int(pos2)], where pos1 and pos2 are the sections
\* the LUT gives for the crystals c_min and c_max: a float32 of the map.
\* rf.lines is the set of [c_min, c_max, r] entries of the map that differ
\* from its background value rf.other.
RfLookup(rf, c_min, c_max) ==
    IF \E e \in rf.lines : e.c_min = c_min /\ e.c_max = c_max
    THEN (CHOOSE e \in rf.lines : e.c_min = c_min /\ e.c_max = c_max).r
    ELSE rf.other

\* add_random_factors_jmodular_24m50z.update_row
add_random_factors_update_row(row) ==
    SetColumn(row, "r", RfLookup(args.rf, min(row["c1"], row["c2"]),
                                 max(row["c1"], row["c2"])))

\* A variant of truncate.update_row against which the independence of two
\* invocations is tried: the counter i is one variable of the module, which
\* every invocation increments, instead of a variable of each call of
\* truncate.
truncate_update_row_shared_counter(row) ==
    IF nread + 1 + (IF suspended = NoInvocation THEN 0 ELSE suspended.nread)
           > args.number_of_events
    THEN [kind |-> "StopProcessingException", row |-> row]
    ELSE [kind |-> "row", row |-> row]

\* truncate.update_row.  The counter i is a variable of the call of truncate
\* that update_row increments each time it is called, once per row taken
\* from the iterator: after the increment it is nread + 1.
truncate_update_row(row) ==
    IF nread + 1 > args.number_of_events
    THEN [kind |-> "StopProcessingException", row |-> row]
    ELSE [kind |-> "row", row |-> row]

\* del row[column]
DelColumn(row, column) == [name \in DOMAIN row \ {column} |-> row[name]]

\* What the row callback of the running tool may do with a row: return a
\* row, return None, raise StopProcessingException, or raise another
\* exception.  The callback given
\* to update_castor_datafile by a caller is arbitrary; the ones of
\* add_normalization_factors, of add_random_factors, of truncate and of
\* replicate (the default) are fixed.  "del_column" is a caller whose
\* callback returns the row as it is or without its field args.column, or
\* raises the stop signal.
update_row(row) ==
    IF args.tool = "del_column"
    THEN { [kind |-> "row", row |-> row],
           [kind |-> "row", row |-> DelColumn(row, args.column)],
           [kind |-> "StopProcessingException", row |-> row] }
    ELSE IF args.tool = "add_normalization_factors"
    THEN { [kind |-> "row", row |-> add_normalization_factors_update_row(row)] }
    ELSE IF args.tool = "add_random_factors"
    THEN { [kind |-> "row", row |-> add_random_factors_update_row(row)] }
    ELSE IF args.tool = "truncate"
    THEN { truncate_update_row(row) }
    ELSE IF args.tool = "replicate"
    THEN { [kind |-> "row", row |-> row] }
    ELSE { [kind |-> "row", row |-> row],
           [kind |-> "None", row |-> row],
           [kind |-> "StopProcessingException", row |-> row],
           [kind |-> "Exception", row |-> row] }

\* ------------------------------------------------------------------------
\* update_castor_datafile, replicate, add_normalization_factors: the steps
\* ------------------------------------------------------------------------
\* A variant of EndWith against which the handling of a missing file is
\* tried: no exception is caught.
EndWithUncaught(e) ==
    /\ pc' = "done"
    /\ raised' = e
    /\ exc' = e

\* The run ends with exception e.  Inside the try block of
\* update_castor_datafile / replicate a FileNotFoundError is caught and
\* becomes sys.exit(1); every other exception propagates.
EndWith(e) ==
    /\ pc' = "done"
    /\ raised' = e
    /\ exc' = IF e = "FileNotFoundError" THEN "SystemExit(1)" ELSE e

\* add_normalization_factors, line 47: pd.read_csv(nf_csv, index_col=[0, 1]);
\* an empty CSV file raises EmptyDataError, a ValueError, outside any try.
ReadCsv ==
    /\ pc = "read_csv"
    /\ IF args.nf.empty
       THEN EndWith("ValueError")
       ELSE pc' = "start" /\ UNCHANGED << exc, raised >>
    /\ UNCHANGED << np_strict, suspended, fs0, fs, args, cdh_content, cdf_dt, cdf_dd, nread, progress,
                    calls, written, call >>

\* cdh_content, cdf_dd = get_cdf_and_cdh_content_from_file(cdh_path): the
\* header is read and checked, the dtype derived from its flags, the binary
\* beside it read and decoded.  Nothing is written.
GetContentFails(e) ==
    /\ EndWith(e)
    /\ UNCHANGED << cdh_content, cdf_dt, cdf_dd >>

GetContent ==
    /\ pc = "start"
    /\ IF ~Exists(args.cdh_path) THEN GetContentFails("FileNotFoundError")
       ELSE \E checked \in {CheckHeader(fs[args.cdh_path].data)},
               cdf_path \in {get_cdf_path(fs[args.cdh_path].data, args.cdh_path)} :
              IF checked.exc # "none" THEN GetContentFails(checked.exc)
              ELSE IF cdf_path.exc # "none" THEN GetContentFails(cdf_path.exc)
              ELSE /\ cdf_dt' = get_dtype(checked.flags)
                   /\ \E dd \in {get_dd_from_cdf_file(cdf_path.val, cdf_dt')} :
                         IF dd.exc # "none"
                         THEN EndWith(dd.exc) /\ UNCHANGED << cdh_content, cdf_dd >>
                         ELSE /\ cdh_content' = fs[args.cdh_path].data
                              /\ cdf_dd' = dd.val
                              /\ pc' = IF args.tool = "replicate"
                                       THEN "sample" ELSE "got"
                              /\ UNCHANGED << exc, raised >>
    /\ UNCHANGED << np_strict, suspended, fs0, fs, args, nread, progress, calls, written, call >>

\* replicate: cdf_dd.sample(frac=1.0, replace=True): as many rows as the
\* input has, each drawn from the input rows.
Sample ==
    /\ pc = "sample"
    /\ \E pick \in [1..Len(cdf_dd) -> 1..Len(cdf_dd)] :
           cdf_dd' = [k \in 1..Len(cdf_dd) |-> cdf_dd[pick[k]]]
    /\ pc' = "got"
    /\ UNCHANGED << np_strict, suspended, fs0, fs, args, exc, raised, cdh_content, cdf_dt, nread,
                    progress, calls, written, call >>

\* write_new_cdh_file, line 294: open(output_cdh, 'w')
OpenCdh ==
    /\ pc = "got"
    /\ fs' = OpenForWriting(fs, args.output_cdh)
    /\ pc' = "cdh_open"
    /\ UNCHANGED << np_strict, suspended, fs0, args, exc, raised, cdh_content, cdf_dt, cdf_dd, nread,
                    progress, calls, written, call >>

\* A variant of WriteCdh against which the order of its steps is tried: the
\* header callback is applied to the text as read, and the Data filename is
\* replaced in its result.
WriteCdhTransformFirst ==
    /\ pc = "cdh_open"
    /\ \E transformed \in { update_cdh(cdh_content) } :
       \E new \in { IF transformed.exc # "none" THEN transformed
                    ELSE Ok(replace_cdh_field(transformed.val, DATA_FILENAME,
                                              basename(args.output_cdf))) } :
           /\ call' = [op |-> "update_cdh", in |-> cdh_content, out |-> new]
           /\ IF new.exc # "none"
              THEN EndWith(new.exc) /\ UNCHANGED fs
              ELSE /\ fs' = [fs EXCEPT ![args.output_cdh] = File(new.val)]
                   /\ pc' = "cdh_written"
                   /\ UNCHANGED << exc, raised >>
    /\ UNCHANGED << np_strict, suspended, fs0, args, cdh_content, cdf_dt, cdf_dd, nread, progress,
                    calls, written >>

\* write_new_cdh_file, lines 295-298: the Data filename is replaced, the
\* header callback applied and the result written; when the callback raises,
\* the with block closes the file as it is.  `call` keeps the text that the
\* callback was passed and its result.
WriteCdh ==
    /\ pc = "cdh_open"
    /\ \E cdh_with_updated_cdf \in
              { replace_cdh_field(cdh_content, DATA_FILENAME,
                                  basename(args.output_cdf)) } :
       \E new \in { update_cdh(cdh_with_updated_cdf) } :
           /\ call' = [op |-> "update_cdh", in |-> cdh_with_updated_cdf, out |-> new]
           /\ IF new.exc # "none"
              THEN EndWith(new.exc) /\ UNCHANGED fs
              ELSE /\ fs' = [fs EXCEPT ![args.output_cdh] = File(new.val)]
                   /\ pc' = "cdh_written"
                   /\ UNCHANGED << exc, raised >>
    /\ UNCHANGED << np_strict, suspended, fs0, args, cdh_content, cdf_dt, cdf_dd, nread, progress,
                    calls, written >>

\* write_new_cdf_file, line 310: open(output_cdf, 'w+b') and the progress bar
OpenCdf ==
    /\ pc = "cdh_written"
    /\ fs' = OpenForWriting(fs, args.output_cdf)
    /\ pc' = "loop"
    /\ UNCHANGED << np_strict, suspended, fs0, args, exc, raised, cdh_content, cdf_dt, cdf_dd, nread,
                    progress, calls, written, call >>

\* write_new_cdf_file, lines 313-319: one turn of the loop.  The callback is
\* applied to the next row; the progress bar advances after a turn that did
\* not raise.
\* Variants of the three outcomes below, against which the properties of the
\* loop are tried: a stop that is ignored, a None that ends the loop.
RowStopIgnored ==
    /\ progress' = progress + 1
    /\ UNCHANGED << fs, pc, exc, raised, written >>

RowNoneEnds ==
    /\ pc' = "done"
    /\ UNCHANGED << fs, exc, raised, progress, written >>

\* except StopProcessingException: break
RowStop ==
    /\ pc' = "done"
    /\ UNCHANGED << fs, exc, raised, progress, written >>

\* An exception of update_row other than StopProcessingException is not
\* caught by write_new_cdf_file: the with block closes the file and the
\* exception ends the run.
RowRaises ==
    /\ EndWith("Exception")
    /\ UNCHANGED << fs, progress, written >>

\* new_row is None: nothing is written
RowNone ==
    /\ progress' = progress + 1
    /\ UNCHANGED << fs, pc, exc, raised, written >>

\* A variant of RowWrite against which the boundaries of cancellation are
\* tried: an exception of write_row ends the loop as the stop signal does.
RowWriteErrorStops(new_row) ==
    \E w \in { write_row(new_row, fs[args.output_cdf].data) } :
        /\ fs' = [fs EXCEPT ![args.output_cdf] = File(w.file)]
        /\ written' = Append(written, [index |-> nread, row |-> new_row])
        /\ IF w.exc # "none"
           THEN pc' = "done" /\ UNCHANGED << exc, raised, progress >>
           ELSE /\ progress' = progress + 1
                /\ UNCHANGED << pc, exc, raised >>

\* write_row(new_row, output_cdf_file); an exception of write_row ends the run
RowWrite(new_row) ==
    \E w \in { write_row(new_row, fs[args.output_cdf].data) } :
        /\ fs' = [fs EXCEPT ![args.output_cdf] = File(w.file)]
        /\ written' = Append(written, [index |-> nread, row |-> new_row])
        /\ IF w.exc # "none"
           THEN EndWith(w.exc) /\ UNCHANGED progress
           ELSE /\ progress' = progress + 1
                /\ UNCHANGED << pc, exc, raised >>

Row ==
    /\ pc = "loop"
    /\ nread < Len(cdf_dd)
    /\ \E new_row \in update_row(cdf_dd[nread + 1]) :
          /\ nread' = nread + 1
          /\ calls' = Append(calls, new_row.kind)
          /\ CASE new_row.kind = "StopProcessingException" -> RowStop
               [] new_row.kind = "None" -> RowNone
               [] new_row.kind = "Exception" -> RowRaises
               [] new_row.kind = "row" -> RowWrite(new_row.row)
    /\ UNCHANGED << np_strict, suspended, fs0, args, cdh_content, cdf_dt, cdf_dd, call >>

\* A variant of EndOfRows against which the end of the loop is tried: the
\* iterator may end one row early.
EndOfRowsEarly ==
    /\ pc = "loop"
    /\ nread + 1 >= Len(cdf_dd)
    /\ pc' = "done"
    /\ UNCHANGED << np_strict, suspended, fs0, fs, args, exc, raised, cdh_content, cdf_dt,
                    cdf_dd, nread, progress, calls, written, call >>

\* write_new_cdf_file: the iterator is exhausted, the run returns.
EndOfRows ==
    /\ pc = "loop"
    /\ nread = Len(cdf_dd)
    /\ pc' = "done"
    /\ UNCHANGED << np_strict, suspended, fs0, fs, args, exc, raised, cdh_content, cdf_dt, cdf_dd,
                    nread, progress, calls, written, call >>

\* ------------------------------------------------------------------------
\* Inputs
\* ------------------------------------------------------------------------
\* Bounds of the model
MaxRecords == 2

\* The directory of the files and their paths
DIR == << "d" >>
IN_CDH == join(DIR, << "in.Cdh" >>)
IN_CDF == join(DIR, << "in.Cdf" >>)
OUT_CDH == join(DIR, << "out.Cdh" >>)
OUT_CDF == join(DIR, << "out.Cdf" >>)
Paths == { IN_CDH, IN_CDF, OUT_CDH, OUT_CDF }

\* A header line `key: value`
Line(key, value) == << key, COLON, SP >> \o value

\* Lines joined by the line terminator
RECURSIVE JoinLines(_)
JoinLines(lines) ==
    IF Len(lines) = 0 THEN << >>
    ELSE IF Len(lines) = 1 THEN lines[1]
    ELSE lines[1] \o << NL >> \o JoinLines(Tail(lines))

\* The flag lines `flag: 1` of the flags in `on`, in the order of FLAGS, or
\* in the opposite order.
RECURSIVE FlagLines(_, _, _)
FlagLines(on, k, reversed) ==
    IF k > Len(FLAGS) THEN << >>
    ELSE LET here == IF FLAGS[k].flag \in on
                     THEN << Line(FLAGS[k].flag, << "1" >>) >> ELSE << >>
         IN  IF reversed THEN FlagLines(on, k + 1, reversed) \o here
             ELSE here \o FlagLines(on, k + 1, reversed)

\* The headers of the model: the header of the tests (Data filename, Number
\* of events, Data mode, Data type), the flags in `on` set to 1, and one
\* named variation.
Variations == { "plain", "reversed", "trailing_newline",
                "no_mode", "histogram", "lines_1", "lines_2", "lines_toto",
                "flag_hello", "flag_0", "flag_2",
                "dup_mode", "dup_lines", "dup_flag", "dup_filename",
                "dup_mode_blank", "no_filename", "prefix_filename" }

Header(variation, on) ==
    LET filename == Line(DATA_FILENAME, << "in.Cdf" >>)
        mode == Line(DATA_MODE, << "list-mode" >>)
        filename_lines ==
            CASE variation = "no_filename" -> << >>
              [] variation = "dup_filename" -> << filename, filename >>
              [] variation = "prefix_filename" ->
                    << filename, << DATA_FILENAME, "2", COLON, SP, "old.Cdf" >> >>
              [] OTHER -> << filename >>
        mode_lines ==
            CASE variation = "no_mode" -> << >>
              [] variation = "histogram" -> << Line(DATA_MODE, << "histogram" >>) >>
              [] variation = "dup_mode" -> << mode, mode >>
              [] variation = "dup_mode_blank" ->
                    << mode, Line(DATA_MODE, << "list", SP, "mode" >>) >>
              [] OTHER -> << mode >>
        more_lines ==
            CASE variation = "lines_1" -> << Line(MAX_LINES, << "1" >>) >>
              [] variation = "lines_2" -> << Line(MAX_LINES, << "2" >>) >>
              [] variation = "lines_toto" -> << Line(MAX_LINES, << "toto" >>) >>
              [] variation = "dup_lines" ->
                    << Line(MAX_LINES, << "1" >>), Line(MAX_LINES, << "1" >>) >>
              [] variation = "flag_hello" ->
                    << Line(SCATTER_CORRECTION_FLAG, << "hello" >>) >>
              [] variation = "flag_0" ->
                    << Line(NORMALIZATION_CORRECTION_FLAG, << "0" >>) >>
              [] variation = "flag_2" ->
                    << Line(NORMALIZATION_CORRECTION_FLAG, << "2" >>) >>
              [] variation = "dup_flag" ->
                    << Line(RANDOM_CORRECTION_FLAG, << "0" >>),
                       Line(RANDOM_CORRECTION_FLAG, << "1" >>) >>
              [] OTHER -> << >>
    IN  JoinLines(filename_lines
                      \o << Line(NUMBER_OF_EVENTS, << "2" >>) >>
                      \o mode_lines
                      \o << Line("Data type", << "PET" >>) >>
                      \o more_lines
                      \o FlagLines(on, 1, variation = "reversed"))
            \o (IF variation = "trailing_newline" THEN << NL >> ELSE << >>)

\* The flags that the binary file of a header is laid out for
DataFlags(variation, on) ==
    IF variation = "flag_2" THEN on \cup { NORMALIZATION_CORRECTION_FLAG } ELSE on

\* The records of the input binaries.  Record 1 is the first row of the
\* tests (t = 1, c1 = 1, c2 = 2); record 2 has c1 = 2, c2 = 1 and a
\* timestamp with the top bit set (2^31 + 2).  The correction fields are
\* float32 values, a different one in every column.
Records == { 1, 2 }

RecordWord(record, column) ==
    IF record = 1
    THEN CASE column = "t"   -> << 1, 0, 0, 0 >>
           [] column = "a"   -> << 0, 0, 128, 63 >>
           [] column = "s"   -> << 0, 0, 0, 63 >>
           [] column = "r"   -> << 0, 0, 0, 64 >>
           [] column = "n"   -> << 0, 0, 192, 63 >>
           [] column = "TOF" -> << 0, 0, 64, 64 >>
           [] column = "c1"  -> << 1, 0, 0, 0 >>
           [] column = "c2"  -> << 2, 0, 0, 0 >>
    ELSE CASE column = "t"   -> << 2, 0, 0, 128 >>
           [] column = "a"   -> << 0, 0, 128, 62 >>
           [] column = "s"   -> << 0, 0, 0, 62 >>
           [] column = "r"   -> << 0, 0, 128, 64 >>
           [] column = "n"   -> << 0, 0, 64, 63 >>
           [] column = "TOF" -> << 0, 0, 160, 64 >>
           [] column = "c1"  -> << 2, 0, 0, 0 >>
           [] column = "c2"  -> << 1, 0, 0, 0 >>

\* The bytes of one record laid out for the flags in `on`
RECURSIVE RecordFlagBytes(_, _, _)
RecordFlagBytes(record, on, k) ==
    IF k > Len(FLAGS) THEN << >>
    ELSE (IF FLAGS[k].flag \in on THEN RecordWord(record, FLAGS[k].column) ELSE << >>)
             \o RecordFlagBytes(record, on, k + 1)

RecordBytes(record, on) ==
    RecordWord(record, "t") \o RecordFlagBytes(record, on, 1)
        \o RecordWord(record, "c1") \o RecordWord(record, "c2")

\* The bytes of a sequence of records
RECURSIVE Binary(_, _)
Binary(records, on) ==
    IF Len(records) = 0 THEN << >>
    ELSE RecordBytes(records[1], on) \o Binary(Tail(records), on)

\* The sequences of at most MaxRecords records
RecordSeqs == UNION { [1..n -> Records] : n \in 0..MaxRecords }

\* A table of normalization factors: the line (1, 2) -> 1.5 of the tests,
\* and no line for (2, 1)
NF == [empty |-> FALSE,
       lines |-> { [c1 |-> PyInt(1), c2 |-> PyInt(2),
                    n |-> [bits |-> << 0, 0, 192, 63 >>, exact |-> TRUE]] }]

\* An empty CSV file
NF_EMPTY == [empty |-> TRUE, lines |-> {}]

AllFlagSets == SUBSET FlagKeys
FewFlagSets == { {}, { NORMALIZATION_CORRECTION_FLAG },
                 { ATTENUATION_CORRECTION_FLAG, TOF_INFORMATION_FLAG } }

\* A scenario: the tool, the header in cdh_path (if the file exists), the
\* binary beside it (if it exists; `stray` more bytes follow its records),
\* and whether the output files exist beforehand.
Scenario(tool, variation, on, records, stray, cdh, cdf, out, nf) ==
    [tool |-> tool, variation |-> variation, on |-> on, records |-> records,
     stray |-> stray, cdh |-> cdh, cdf |-> cdf, out |-> out, nf |-> nf]

Scenarios ==
    \* update_castor_datafile on every flag combination
    { Scenario("update_castor_datafile", "plain", on, rs, 0, TRUE, TRUE, out, NF) :
        on \in AllFlagSets, rs \in RecordSeqs, out \in BOOLEAN }
    \cup
    \* update_castor_datafile and replicate on every variation of the header
    { Scenario(tool, v, on, rs, 0, TRUE, TRUE, out, NF) :
        tool \in { "update_castor_datafile", "replicate" },
        v \in Variations,
        on \in { {}, { ATTENUATION_CORRECTION_FLAG, TOF_INFORMATION_FLAG } },
        rs \in { << 1, 2 >> }, out \in BOOLEAN }
    \cup
    \* a missing header, a missing binary, a binary with a stray byte or
    \* with four
    { Scenario(tool, "plain", on, rs, sc[1], sc[2], sc[3], out, NF) :
        tool \in { "update_castor_datafile", "replicate", "add_normalization_factors" },
        on \in FewFlagSets, rs \in { << 1, 2 >> },
        sc \in { << 0, FALSE, TRUE >>, << 0, TRUE, FALSE >>, << 1, TRUE, TRUE >>,
                 << 4, TRUE, TRUE >> },
        out \in BOOLEAN }
    \cup
    \* replicate
    { Scenario("replicate", "plain", on, rs, 0, TRUE, TRUE, FALSE, NF) :
        on \in FewFlagSets, rs \in RecordSeqs }
    \cup
    \* add_normalization_factors
    { Scenario("add_normalization_factors", v, on, rs, 0, TRUE, TRUE, out, nf) :
        v \in { "plain", "trailing_newline" }, on \in FewFlagSets,
        rs \in RecordSeqs, out \in BOOLEAN, nf \in { NF, NF_EMPTY } }
    \cup
    { Scenario("add_normalization_factors", v, {}, rs, 0, TRUE, TRUE, FALSE, NF) :
        v \in { "flag_0", "flag_2", "no_mode" }, rs \in RecordSeqs }
    \cup
    \* a callback that returns rows without one of their fields
    { [tool |-> "del_column", variation |-> "plain", on |-> on, records |-> rs,
       stray |-> 0, cdh |-> TRUE, cdf |-> TRUE, out |-> FALSE, nf |-> NF,
       column |-> column] :
        on \in { {}, { ATTENUATION_CORRECTION_FLAG, TOF_INFORMATION_FLAG } },
        rs \in { << 1 >>, << 1, 2 >> }, column \in { "t", "a", "c1", "c2" } }
    \cup
    \* truncate to every number of events up to one more than the input has
    { [tool |-> "truncate", variation |-> v, on |-> on, records |-> rs,
       stray |-> 0, cdh |-> TRUE, cdf |-> TRUE, out |-> FALSE, nf |-> NF,
       number_of_events |-> n] :
        v \in { "plain", "trailing_newline" },
        on \in { {}, { ATTENUATION_CORRECTION_FLAG, TOF_INFORMATION_FLAG } },
        rs \in RecordSeqs, n \in 0..(MaxRecords + 1) }

\* The content of an output file that exists beforehand
OLD_CDH == << "old" >>
OLD_CDF == << 7 >>

InitFs(sc) ==
    [path \in Paths |->
        CASE path = IN_CDH ->
                 IF sc.cdh THEN File(Header(sc.variation, sc.on)) ELSE Absent
          [] path = IN_CDF ->
                 IF sc.cdf
                 THEN File(Binary(sc.records, DataFlags(sc.variation, sc.on))
                               \o [k \in 1..sc.stray |-> 255])
                 ELSE Absent
          [] path = OUT_CDH -> IF sc.out THEN File(OLD_CDH) ELSE Absent
          [] path = OUT_CDF -> IF sc.out THEN File(OLD_CDF) ELSE Absent]

NoCall == [op |-> "none", in |-> << >>, out |-> << >>]

\* The arguments of the call of the tool of a scenario
ArgsOf(sc) ==
    IF sc.tool = "del_column"
    THEN [tool |-> sc.tool, cdh_path |-> IN_CDH, output_cdh |-> OUT_CDH,
          output_cdf |-> OUT_CDF, nf |-> sc.nf, column |-> sc.column]
    ELSE IF sc.tool = "truncate"
    THEN [tool |-> sc.tool, cdh_path |-> IN_CDH, output_cdh |-> OUT_CDH,
          output_cdf |-> OUT_CDF, nf |-> sc.nf,
          number_of_events |-> sc.number_of_events]
    ELSE [tool |-> sc.tool, cdh_path |-> IN_CDH, output_cdh |-> OUT_CDH,
          output_cdf |-> OUT_CDF, nf |-> sc.nf]

Init ==
    \E sc \in Scenarios :
        /\ fs = InitFs(sc)
        /\ fs0 = InitFs(sc)
        /\ args = ArgsOf(sc)
        /\ pc = IF sc.tool = "add_normalization_factors" THEN "read_csv" ELSE "start"
        /\ np_strict \in BOOLEAN
        /\ exc = "none"
        /\ raised = "none"
        /\ cdh_content = << >>
        /\ cdf_dt = << >>
        /\ cdf_dd = << >>
        /\ nread = 0
        /\ progress = 0
        /\ calls = << >>
        /\ written = << >>
        /\ call = NoCall
        /\ suspended = NoInvocation

Next ==
    \/ ReadCsv
    \/ GetContent
    \/ Sample
    \/ OpenCdh
    \/ WriteCdh
    \/ OpenCdf
    \/ Row
    \/ EndOfRows

Spec == Init /\ [][Next]_vars

\* ------------------------------------------------------------------------
\* Properties: what they are stated in
\* ------------------------------------------------------------------------
UPDATE == "update_castor_datafile"
REPLICATE == "replicate"
ADD_NF == "add_normalization_factors"
STOP == "StopProcessingException"

\* The positions of `calls` at which the row callback did `kind`
Positions(kind) == { k \in 1..Len(calls) : calls[k] = kind }

\* The loop of write_new_cdf_file has been entered
LoopStarted == pc = "loop" \/ (pc = "done" /\ (exc = "none" \/ Len(calls) > 0))

\* The bytes of the input record at index i (from 0)
InputRecord(i) ==
    SubSeq(fs0[IN_CDF].data, i * itemsize(cdf_dt) + 1, (i + 1) * itemsize(cdf_dt))

\* The input records at the indices of a log of written rows, in its order
RECURSIVE InputRecordsOf(_)
InputRecordsOf(log) ==
    IF Len(log) = 0 THEN << >>
    ELSE InputRecord(log[1].index) \o InputRecordsOf(Tail(log))

\* The encodings of the rows of a log of written rows, in its order
RECURSIVE EncodingsOf(_)
EncodingsOf(log) ==
    IF Len(log) = 0 THEN << >>
    ELSE write_row(log[1].row, << >>).file \o EncodingsOf(Tail(log))

\* The lines of a text: what stands between its line terminators
RECURSIVE SplitLines(_)
SplitLines(t) ==
    IF \A p \in 1..Len(t) : t[p] # NL THEN << t >>
    ELSE LET e == CHOOSE p \in 1..Len(t) :
                      t[p] = NL /\ \A q \in 1..(p - 1) : t[q] # NL
         IN  << SubSeq(t, 1, e - 1) >> \o SplitLines(SubSeq(t, e + 1, Len(t)))

\* Where the colon of a line `key: value` is (blanks may precede it); 0 for
\* a line with another key or with none
ColonOf(line, key) ==
    IF Len(line) >= 2 /\ line[1] = key
          /\ \E c \in 2..Len(line) :
                 line[c] = COLON /\ \A q \in 2..(c - 1) : line[q] = SP
    THEN CHOOSE c \in 2..Len(line) :
             line[c] = COLON /\ \A q \in 2..(c - 1) : line[q] = SP
    ELSE 0

HasKey(line, key) == ColonOf(line, key) # 0

\* The value of a line `key: value`: what follows the colon, without the
\* blanks around it
LineValue(line, key) ==
    LET rest == SubSeq(line, ColonOf(line, key) + 1, Len(line))
        inner == { p \in 1..Len(rest) : rest[p] # SP }
    IN  IF inner = {} THEN << >>
        ELSE SubSeq(rest, CHOOSE p \in inner : \A q \in inner : p <= q,
                          CHOOSE p \in inner : \A q \in inner : p >= q)

\* The values of the lines of a text that carry the key, top to bottom
RECURSIVE ValuesIn(_, _)
ValuesIn(lines, key) ==
    IF Len(lines) = 0 THEN << >>
    ELSE (IF HasKey(lines[1], key) THEN << LineValue(lines[1], key) >> ELSE << >>)
             \o ValuesIn(Tail(lines), key)

ValuesOf(t, key) == ValuesIn(SplitLines(t), key)

\* The header and the output files as they were before the run
InputHeader == fs0[IN_CDH].data
OutputsUntouched == fs[OUT_CDH] = fs0[OUT_CDH] /\ fs[OUT_CDF] = fs0[OUT_CDF]

\* ------------------------------------------------------------------------
\* Properties of the streaming loop
\* ------------------------------------------------------------------------
\* C1: when the row callback raises the stop signal on the record at index
\* n, the loop ends at once: the callback is not called again, nothing is
\* written for record n or a later one, the records written before stay in
\* the output, and the run ends without an exception.  If the callback kept
\* every earlier record the output is the first n input records; a callback
\* that never stops and keeps every record yields all of them.
C1_StopAtIndexTruncates ==
    /\ (args.tool = UPDATE /\ Positions(STOP) # {}) =>
          LET n == Len(calls) - 1
          IN  /\ Positions(STOP) = { Len(calls) }
              /\ pc = "done" /\ exc = "none" /\ raised = "none"
              /\ \A j \in 1..Len(written) : written[j].index < n
              /\ fs[OUT_CDF].data = InputRecordsOf(written)
              /\ Positions("row") = 1..n =>
                     fs[OUT_CDF].data = SubSeq(fs0[IN_CDF].data, 1, n * itemsize(cdf_dt))
    /\ (args.tool = UPDATE /\ pc = "done" /\ exc = "none"
           /\ Positions("row") = 1..Len(cdf_dd)) =>
          fs[OUT_CDF].data = fs0[IN_CDF].data

\* A run whose callback kept record 0 and stopped on record 1 of two
C1_Witness ==
    /\ args.tool = UPDATE /\ pc = "done" /\ exc = "none"
    /\ Len(cdf_dd) = 2
    /\ calls = << "row", STOP >>
    /\ fs[OUT_CDF].data = InputRecord(0)
    /\ Len(fs[OUT_CDF].data) = itemsize(cdf_dt)

\* C3: a None result suppresses that record only: the rows written are
\* exactly those for which the callback returned a row, each at its own
\* index, and a run that ends without a stop signal has passed every record
\* of the input to the callback.
C3_NoneSuppressesOneRecord ==
    (args.tool = UPDATE /\ LoopStarted /\ exc = "none") =>
        /\ { written[j].index : j \in 1..Len(written) }
               = { k - 1 : k \in Positions("row") }
        /\ Len(written) = Cardinality(Positions("row"))
        /\ Len(fs[OUT_CDF].data) = Len(written) * itemsize(cdf_dt)
        /\ (Positions(STOP) = {} /\ pc = "done") => Len(calls) = Len(cdf_dd)
        /\ (Positions(STOP) = {} /\ Len(calls) < Len(cdf_dd)) => pc = "loop"

\* A finished run whose callback returned None for record 0 and a row for
\* record 1: the output holds record 1 alone
C3_Witness ==
    /\ args.tool = UPDATE /\ pc = "done" /\ exc = "none"
    /\ calls = << "None", "row" >>
    /\ Len(written) = 1 /\ written[1].index = 1
    /\ fs[OUT_CDF].data = InputRecord(1)
    /\ InputRecord(1) # InputRecord(0)

\* C4: record order is preserved: the rows handed to the callback are the
\* records of the input binary in its order, the rows written are results
\* of the callback at strictly increasing indices, and the output binary is
\* the encodings of the rows written, each appended after the ones before.
C4_RecordOrderPreserved ==
    (args.tool \in { UPDATE, ADD_NF } /\ LoopStarted) =>
        /\ cdf_dd = frombuffer(fs0[IN_CDF].data, cdf_dt).val
        /\ \A j \in 1..Len(written) :
               /\ written[j].index \in 0..(Len(cdf_dd) - 1)
               /\ [kind |-> "row", row |-> written[j].row]
                      \in update_row(cdf_dd[written[j].index + 1])
        /\ \A j \in 1..(Len(written) - 1) : written[j].index < written[j + 1].index
        /\ fs[OUT_CDF].data = EncodingsOf(written)
        /\ args.tool = UPDATE => fs[OUT_CDF].data = InputRecordsOf(written)

\* A finished run that wrote two different records, in the order of the input
C4_Witness ==
    /\ args.tool = UPDATE /\ pc = "done" /\ exc = "none"
    /\ calls = << "row", "row" >>
    /\ InputRecord(0) # InputRecord(1)
    /\ fs[OUT_CDF].data = InputRecord(0) \o InputRecord(1)

\* ------------------------------------------------------------------------
\* Properties of update_castor_datafile
\* ------------------------------------------------------------------------
\* The run has ended without an exception and its callbacks changed nothing:
\* every record was handed to the row callback, which returned it
IdentityRun ==
    /\ args.tool = UPDATE /\ pc = "done" /\ exc = "none"
    /\ Positions("row") = 1..Len(cdf_dd)

\* The lines of the input header with the value of every `Data filename`
\* line set to the base name of the output binary
ExpectedHeaderLines ==
    [k \in 1..Len(SplitLines(InputHeader)) |->
        IF HasKey(SplitLines(InputHeader)[k], DATA_FILENAME)
        THEN Line(DATA_FILENAME, basename(OUT_CDF))
        ELSE SplitLines(InputHeader)[k]]

\* C2: with the identity callbacks the output binary equals the input
\* binary byte for byte, and the lines of the output header are those of the
\* input header except that the `Data filename` line holds the base name of
\* the output binary.
C2_IdentityCopiesDatafile ==
    IdentityRun =>
        /\ fs[OUT_CDF].data = fs0[IN_CDF].data
        /\ SplitLines(fs[OUT_CDH].data) = ExpectedHeaderLines

\* An identity run that changed a line of the header whose key is not
\* `Data filename`, while the binary was copied byte for byte
C2_Witness ==
    /\ IdentityRun
    /\ Len(cdf_dd) = 2
    /\ fs[OUT_CDF].data = fs0[IN_CDF].data
    /\ Len(SplitLines(fs[OUT_CDH].data)) = Len(SplitLines(InputHeader))
    /\ \E k \in 1..Len(SplitLines(InputHeader)) :
           /\ ~HasKey(SplitLines(InputHeader)[k], DATA_FILENAME)
           /\ SplitLines(fs[OUT_CDH].data)[k] # SplitLines(InputHeader)[k]

\* The fields of the header that update_castor_datafile reads
EngineKeys == { DATA_FILENAME, DATA_MODE, MAX_LINES } \cup FlagKeys

\* A header that fails validation: no `Data mode`, a `Data mode` other than
\* list-mode, a `Maximum number of lines per event` that is no integer or
\* exceeds 1, a flag that is no integer, or a field that the engine reads on
\* more than one line
FailsValidation(t) ==
    \/ Len(ValuesOf(t, DATA_MODE)) = 0
    \/ \E k \in 1..Len(ValuesOf(t, DATA_MODE)) :
           ValuesOf(t, DATA_MODE)[k] # << "list-mode" >>
    \/ \E k \in 1..Len(ValuesOf(t, MAX_LINES)) :
           \/ int(ValuesOf(t, MAX_LINES)[k]).exc # "none"
           \/ int(ValuesOf(t, MAX_LINES)[k]).val > 1
    \/ \E flag \in FlagKeys : \E k \in 1..Len(ValuesOf(t, flag)) :
           int(ValuesOf(t, flag)[k]).exc # "none"
    \/ \E key \in EngineKeys : Len(ValuesOf(t, key)) > 1

\* C5: when the input header fails validation the run ends with an
\* exception and the output files are never created or modified.
C5_InvalidHeaderWritesNothing ==
    (args.tool = UPDATE /\ fs0[IN_CDH].exists /\ FailsValidation(InputHeader)) =>
        /\ OutputsUntouched
        /\ pc = "done" => exc # "none"

\* A run on a header with two `Data mode` lines that ended without an
\* exception and wrote both output files
C5_Witness ==
    /\ args.tool = UPDATE /\ pc = "done" /\ exc = "none"
    /\ Len(ValuesOf(InputHeader, DATA_MODE)) = 2
    /\ ~fs0[OUT_CDH].exists /\ fs[OUT_CDH].exists
    /\ ~fs0[OUT_CDF].exists /\ fs[OUT_CDF].exists

\* C6: when the input header holds `Normalization correction flag: 1`,
\* add_normalization_factors ends with an exception and the output files
\* are never created or modified.
C6_AlreadyNormalizedWritesNothing ==
    (args.tool = ADD_NF /\ fs0[IN_CDH].exists
         /\ ValuesOf(InputHeader, NORMALIZATION_CORRECTION_FLAG) = << << "1" >> >>) =>
        /\ OutputsUntouched
        /\ pc = "done" => exc # "none"

\* add_normalization_factors has ended with the ValueError of its header
\* callback, leaving behind an empty output header that did not exist
C6_Witness ==
    /\ args.tool = ADD_NF /\ pc = "done" /\ exc = "ValueError"
    /\ ~args.nf.empty
    /\ ValuesOf(InputHeader, NORMALIZATION_CORRECTION_FLAG) = << << "1" >> >>
    /\ ~fs0[OUT_CDH].exists
    /\ fs[OUT_CDH] = File(<< >>)
    /\ ~fs[OUT_CDF].exists

\* The header is missing, or it passes validation and the binary that its
\* `Data filename` names, beside the header, is missing
InputMissing ==
    \/ ~fs0[IN_CDH].exists
    \/ /\ Len(ValuesOf(InputHeader, DATA_FILENAME)) = 1
       /\ LET named == join(dirname(IN_CDH), ValuesOf(InputHeader, DATA_FILENAME)[1])
          IN  named \notin DOMAIN fs0 \/ ~fs0[named].exists
       /\ ~FailsValidation(InputHeader)

\* C7: when the header or the binary it names is missing, the
\* FileNotFoundError is caught, the run ends with sys.exit(1), and no file
\* is written at any moment.
C7_MissingInputExits ==
    (InputMissing /\ ~args.nf.empty) =>
        /\ fs = fs0
        /\ pc = "done" => (raised = "FileNotFoundError" /\ exc = "SystemExit(1)")
        /\ pc \in { "read_csv", "start", "done" }

\* replicate has ended with sys.exit(1) on a header whose binary is missing
C7_Witness ==
    /\ args.tool = REPLICATE /\ pc = "done" /\ exc = "SystemExit(1)"
    /\ fs0[IN_CDH].exists /\ ~fs0[IN_CDF].exists
    /\ fs0[OUT_CDH].exists /\ fs = fs0

\* ------------------------------------------------------------------------
\* The functions of transformation.py applied on their own
\* ------------------------------------------------------------------------
\* Bound: the lines of a header handed to read_cdh_field
MaxLines == 3

CALIBRATION_FACTOR == "Calibration factor"

\* Lines of a header: the field of the tests with a value of one token, of
\* another token, of two tokens, with blanks around colon and value, and a
\* line of another field
FieldLines ==
    { Line(CALIBRATION_FACTOR, << "1" >>),
      Line(CALIBRATION_FACTOR, << "2" >>),
      Line(CALIBRATION_FACTOR, << "a", SP, "b" >>),
      << CALIBRATION_FACTOR, SP, COLON, SP, SP, "abc", SP >>,
      Line("Isotope", << "unknown" >>) }

HeaderTexts ==
    { JoinLines(lines) : lines \in UNION { [1..n -> FieldLines] : n \in 0..MaxLines } }

\* The dicts that map each of the five flags to a boolean, in every order
\* of insertion
FlagDicts ==
    { [k \in 1..Len(FLAGS) |-> [key |-> order[k], value |-> enabled[order[k]]]] :
        order \in { o \in [1..Len(FLAGS) -> FlagKeys] :
                      \A i, j \in 1..Len(FLAGS) : o[i] = o[j] => i = j },
        enabled \in [FlagKeys -> BOOLEAN] }

\* The dict that get_flags returns for a header with the flags in `on` set
FlagsOf(on) ==
    [k \in 1..Len(FLAGS) |-> [key |-> FLAGS[k].flag, value |-> FLAGS[k].flag \in on]]

\* Timestamps: 1, 2^31 - 1, 2^31 and 2^32 - 1
Timestamps ==
    { PyInt(1),
      [hi |-> HalfSigned - 1, lo |-> Half - 1],
      [hi |-> HalfSigned, lo |-> 0],
      [hi |-> Half - 1, lo |-> Half - 1] }

\* A row that defines exactly the fields of the schema of the flags in `on`:
\* the values of a record of the inputs, with timestamp t
RowOf(record, on, t) ==
    [name \in { "t", "c1", "c2" } \cup { FlagEntry(flag).column : flag \in on } |->
        CASE name = "t" -> t
          [] name \in { "c1", "c2" } -> Int32Of(RecordWord(record, name))
          [] OTHER -> [bits |-> RecordWord(record, name), exact |-> TRUE]]

\* What a call of a function leaves alone
untouched == << np_strict, fs, fs0, args, exc, raised, cdh_content, cdf_dt, cdf_dd,
                nread, progress, calls, written, suspended >>

\* read_cdh_field(cdh_content, "Calibration factor")
CallReadCdhField ==
    /\ pc = "call"
    /\ \E cdh \in HeaderTexts :
           call' = [op |-> "read_cdh_field", in |-> cdh,
                    out |-> read_cdh_field(cdh, CALIBRATION_FACTOR)]
    /\ pc' = "returned"
    /\ UNCHANGED untouched

\* get_dtype(flags)
CallGetDtype ==
    /\ pc = "call"
    /\ \E flags \in FlagDicts :
           call' = [op |-> "get_dtype", in |-> flags, out |-> get_dtype(flags)]
    /\ pc' = "returned"
    /\ UNCHANGED untouched

\* get_dtype(get_flags(cdh_content)), as get_cdf_and_cdh_content_from_file
\* calls it, on headers that list their flags in either order
CallGetDtypeOfHeader ==
    /\ pc = "call"
    /\ \E on \in SUBSET FlagKeys, v \in { "plain", "reversed" } :
           \E flags \in { get_flags(Header(v, on)) } :
               call' = [op |-> "get_dtype_of_header", in |-> Header(v, on),
                        out |-> IF flags.exc # "none" THEN << >>
                                ELSE get_dtype(flags.val)]
    /\ pc' = "returned"
    /\ UNCHANGED untouched

\* write_row(row, file) on an empty file, and the file read back with
\* np.frombuffer under the dtype of the flags
CallWriteRow ==
    /\ pc = "call"
    /\ \E on \in SUBSET FlagKeys, record \in Records, t \in Timestamps :
           \E w \in { write_row(RowOf(record, on, t), << >>) } :
               \E rows \in { IF w.exc # "none" THEN Raise(w.exc)
                             ELSE frombuffer(w.file, get_dtype(FlagsOf(on))) } :
                   call' = [op |-> "write_row",
                            in |-> [on |-> on, row |-> RowOf(record, on, t)],
                            out |-> [exc |-> rows.exc, rows |-> rows.val,
                                     file |-> w.file]]
    /\ pc' = "returned"
    /\ UNCHANGED untouched

\* The layout of a record without and with the normalization flag, the
\* other flags equal: the dtype of the header and the bytes that write_row
\* produces for a row with the fields of that dtype
LayoutOf(v, on, record) ==
    [dtype |-> get_dtype(get_flags(Header(v, on)).val),
     file |-> write_row(RowOf(record, on, Int32Of(RecordWord(record, "t"))),
                        << >>).file]

CallRecordLayout ==
    /\ pc = "call"
    /\ \E on \in SUBSET (FlagKeys \ { NORMALIZATION_CORRECTION_FLAG }),
          record \in Records, v \in { "plain", "reversed" } :
           \E off \in { LayoutOf(v, on, record) },
              with \in { LayoutOf(v, on \cup { NORMALIZATION_CORRECTION_FLAG }, record) } :
               call' = [op |-> "record_layout",
                        in |-> [on |-> on, record |-> record],
                        out |-> [off |-> off, with |-> with]]
    /\ pc' = "returned"
    /\ UNCHANGED untouched

\* The values of a flag line: integers, a word, and two tokens
FlagValues == { << "0" >>, << "1" >>, << "2" >>, << "hello" >>, << "1", SP, "0" >> }

\* The header of the tests with one more line `flag: value`
HeaderWithFlag(flag, value) == Header("plain", {}) \o << NL >> \o Line(flag, value)

\* check_flag(cdh_content, flag) on a header without the flag and on headers
\* with one line of the flag
CallCheckFlag ==
    /\ pc = "call"
    /\ \E flag \in FlagKeys :
           \E cdh \in { Header("plain", {}) }
                          \cup { HeaderWithFlag(flag, value) : value \in FlagValues } :
               call' = [op |-> "check_flag", in |-> [cdh |-> cdh, flag |-> flag],
                        out |-> check_flag(cdh, flag)]
    /\ pc' = "returned"
    /\ UNCHANGED untouched

\* get_flags(cdh_content) on headers with any of the flags set to 1, alone
\* or beside a line of another flag with another value
CallGetFlags ==
    /\ pc = "call"
    /\ \E on \in SUBSET FlagKeys,
          v \in { "plain", "reversed", "flag_hello", "flag_0", "flag_2" } :
           call' = [op |-> "get_flags", in |-> Header(v, on),
                    out |-> get_flags(Header(v, on))]
    /\ pc' = "returned"
    /\ UNCHANGED untouched

\* Lines of a header for replace_cdh_field: a line of the field, a line
\* whose key starts with the field, a line of text that starts with the
\* field, the field alone, and a line of another field
ReplaceLines ==
    { Line(CALIBRATION_FACTOR, << "1" >>),
      << CALIBRATION_FACTOR, "2", COLON, SP, "1" >>,
      << CALIBRATION_FACTOR, SP, "unknown" >>,
      << CALIBRATION_FACTOR >>,
      Line("Isotope", << "unknown" >>) }

ReplaceTexts ==
    { JoinLines(lines) : lines \in UNION { [1..n -> ReplaceLines] : n \in 0..MaxLines } }

\* New values: a token, two tokens, the empty string, and the escape \g<0>
NewValues == { << "v" >>, << "a", SP, "b" >>, << >>, << GROUP0 >> }

\* replace_cdh_field(cdh_content, "Calibration factor", new_value), and the
\* same call again on its result
CallReplaceCdhField ==
    /\ pc = "call"
    /\ \E cdh \in ReplaceTexts, new_value \in NewValues :
           \E once \in { replace_cdh_field(cdh, CALIBRATION_FACTOR, new_value) } :
               call' = [op |-> "replace_cdh_field",
                        in |-> [cdh |-> cdh, new_value |-> new_value],
                        out |-> [once |-> once,
                                 twice |-> replace_cdh_field(once, CALIBRATION_FACTOR,
                                                             new_value)]]
    /\ pc' = "returned"
    /\ UNCHANGED untouched

\* The bytes of record 1 under the flags in `on`, with the little-endian
\* unsigned 32-bit encoding of v in the place of one integer field
RecordWith(field, v, on) ==
    LET word(name) == IF name = field THEN Int32Bytes(v) ELSE RecordWord(1, name)
    IN  word("t") \o RecordFlagBytes(1, on, 1) \o word("c1") \o word("c2")

\* np.frombuffer of one record, and write_row of the row it gives (as
\* write_new_cdf_file does with the default update_row)
CallDecodeRow ==
    /\ pc = "call"
    /\ \E field \in { "t", "c1", "c2" }, v \in Timestamps \cup { PyInt(0) },
          on \in { {}, { ATTENUATION_CORRECTION_FLAG, TOF_INFORMATION_FLAG } } :
           \E rows \in { frombuffer(RecordWith(field, v, on), get_dtype(FlagsOf(on))) } :
               \E w \in { write_row(rows.val[1], << >>) } :
                   call' = [op |-> "decode_row",
                            in |-> [field |-> field, value |-> v, on |-> on,
                                    buffer |-> RecordWith(field, v, on)],
                            out |-> [row |-> rows.val[1], exc |-> w.exc,
                                     file |-> w.file]]
    /\ pc' = "returned"
    /\ UNCHANGED untouched

\* write_row(row, file) on an empty file, for the row of record 1 under the
\* flags in `on` and for that row without one of the fields of the schema
CallWriteRowLacking ==
    /\ pc = "call"
    /\ \E on \in { {}, { NORMALIZATION_CORRECTION_FLAG },
                    { ATTENUATION_CORRECTION_FLAG, TOF_INFORMATION_FLAG } } :
       \E missing \in { "none", "t", "c1", "c2" }
                          \cup { FlagEntry(flag).column : flag \in on } :
           \E row \in { DelColumn(RowOf(1, on, PyInt(1)), missing) } :
               call' = [op |-> "write_row_lacking",
                        in |-> [on |-> on, missing |-> missing, row |-> row,
                                dtype |-> get_dtype(FlagsOf(on))],
                        out |-> write_row(row, << >>)]
    /\ pc' = "returned"
    /\ UNCHANGED untouched

\* Values of `Data mode`: the token list-mode, other tokens, values of two
\* tokens
ModeValues ==
    { << "list-mode" >>, << "histogram" >>, << "List-mode" >>,
      << "list", SP, "mode" >>, << "list-mode", SP, "histogram" >> }

\* The header of the tests with `Data mode` set to a value (blanks around
\* the colon and after the value or not), followed by `lines`
HeaderWithMode(value, blanks, lines) ==
    JoinLines(<< Line(DATA_FILENAME, << "in.Cdf" >>),
                 IF blanks THEN << DATA_MODE, SP, COLON, SP, SP >> \o value \o << SP >>
                 ELSE Line(DATA_MODE, value),
                 Line("Data type", << "PET" >>) >> \o lines)

\* is_list_mode(cdh_content) and max_nb_of_lines_per_event(cdh_content), as
\* get_cdf_and_cdh_content_from_file calls them, on the headers of the runs
\* and on headers with each value of `Data mode`
CallIsListMode ==
    /\ pc = "call"
    /\ \E cdh \in { Header(v, {}) : v \in Variations }
                     \cup { HeaderWithMode(value, blanks, lines) :
                              value \in ModeValues, blanks \in BOOLEAN,
                              lines \in { << >>, << Line(MAX_LINES, << "1" >>) >>,
                                          << Line(MAX_LINES, << "2" >>) >> } } :
           call' = [op |-> "is_list_mode", in |-> cdh,
                    out |-> [is_list_mode |-> is_list_mode(cdh),
                             max_nb_of_lines_per_event |-> max_nb_of_lines_per_event(cdh)]]
    /\ pc' = "returned"
    /\ UNCHANGED untouched

\* The header callbacks of add_normalization_factors and of
\* add_random_factors, each on headers without its flag (with and without a
\* line terminator at the end) and with one line of its flag
CallUpdateCdh ==
    /\ pc = "call"
    /\ \E flag \in { NORMALIZATION_CORRECTION_FLAG, RANDOM_CORRECTION_FLAG } :
           \E cdh \in { Header("plain", {}), Header("trailing_newline", {}),
                        Header("plain", { ATTENUATION_CORRECTION_FLAG }) }
                          \cup { HeaderWithFlag(flag, value) : value \in FlagValues } :
               call' = [op |-> "update_cdh_of_flag", in |-> [cdh |-> cdh, flag |-> flag],
                        out |-> IF flag = NORMALIZATION_CORRECTION_FLAG
                                THEN add_normalization_factors_update_cdh(cdh)
                                ELSE add_random_factors_update_cdh(cdh)]
    /\ pc' = "returned"
    /\ UNCHANGED untouched

FnInit ==
    /\ pc = "call"
    /\ call = NoCall
    /\ suspended = NoInvocation
    /\ np_strict \in BOOLEAN
    /\ fs = [path \in Paths |-> Absent]
    /\ fs0 = [path \in Paths |-> Absent]
    /\ args = [tool |-> "none", cdh_path |-> IN_CDH, output_cdh |-> OUT_CDH,
               output_cdf |-> OUT_CDF, nf |-> NF]
    /\ exc = "none"
    /\ raised = "none"
    /\ cdh_content = << >>
    /\ cdf_dt = << >>
    /\ cdf_dd = << >>
    /\ nread = 0
    /\ progress = 0
    /\ calls = << >>
    /\ written = << >>

FnNext ==
    \/ CallReadCdhField
    \/ CallGetDtype
    \/ CallGetDtypeOfHeader
    \/ CallWriteRow
    \/ CallRecordLayout
    \/ CallCheckFlag
    \/ CallGetFlags
    \/ CallReplaceCdhField
    \/ CallUpdateCdh
    \/ CallDecodeRow
    \/ CallWriteRowLacking
    \/ CallIsListMode

FnSpec == FnInit /\ [][FnNext]_vars

\* ------------------------------------------------------------------------
\* Properties of the functions
\* ------------------------------------------------------------------------
\* C8: read_cdh_field returns None when no line of the header carries the
\* key, the value when exactly one line carries it, and raises the
\* duplicate-field error when two or more lines carry it, whatever their
\* values are.
C8_ReadFieldCountsLines ==
    call.op = "read_cdh_field" =>
        LET values == ValuesOf(call.in, CALIBRATION_FACTOR)
        IN  /\ Len(values) = 0 => call.out = Ok(None)
            /\ Len(values) = 1 => call.out = Ok(values[1])
            /\ Len(values) >= 2 => call.out.exc = "ValueError"

\* The key stands on two lines, the first with a value of two tokens, and
\* read_cdh_field returns the value of the second
C8_Witness ==
    /\ call.op = "read_cdh_field"
    /\ call.in = JoinLines(<< Line(CALIBRATION_FACTOR, << "a", SP, "b" >>),
                              Line(CALIBRATION_FACTOR, << "1" >>) >>)
    /\ call.out = Ok(<< "1" >>)

\* The schema of the enabled flags in the fixed order: timestamp, the
\* enabled correction fields in the order of FLAGS, crystal ID 1, crystal ID 2
ExpectedDtype(enabled) ==
    LET Enabled(entry) == entry.flag \in enabled
        fields == SelectSeq(FLAGS, Enabled)
    IN  << [name |-> "t", type |-> UINT32_T] >>
            \o [k \in 1..Len(fields) |->
                    [name |-> fields[k].column, type |-> fields[k].type]]
            \o << [name |-> "c1", type |-> UINT32_T],
                  [name |-> "c2", type |-> UINT32_T] >>

\* C9: for every combination of the flags get_dtype returns the schema in
\* the fixed order, whatever the order in which the flags stand in the
\* header text or in the dict given to get_dtype.
C9_DtypeInFixedOrder ==
    /\ call.op = "get_dtype" =>
          call.out = ExpectedDtype({ call.in[k].key : k \in { j \in 1..Len(call.in) :
                                                                call.in[j].value } })
    /\ call.op = "get_dtype_of_header" =>
          call.out = ExpectedDtype({ flag \in FlagKeys :
                                       ValuesOf(call.in, flag) = << << "1" >> >> })

\* get_dtype on a dict that lists normalization before attenuation, both
\* enabled, returns n before a
C9_Witness ==
    /\ call.op = "get_dtype"
    /\ call.in[1] = [key |-> NORMALIZATION_CORRECTION_FLAG, value |-> TRUE]
    /\ call.in[2] = [key |-> ATTENUATION_CORRECTION_FLAG, value |-> TRUE]
    /\ \A k \in 3..Len(call.in) : ~call.in[k].value
    /\ [k \in 1..Len(call.out) |-> call.out[k].name] = << "t", "n", "a", "c1", "c2" >>

\* C10: the bytes that write_row produces for a row that defines exactly
\* the fields of a schema decode, under that schema, to one row with the
\* same value in every field.
C10_WriteRowRoundTrip ==
    call.op = "write_row" =>
        /\ call.out.exc = "none"
        /\ Len(call.out.rows) = 1
        /\ \A name \in DOMAIN call.in.row :
               call.out.rows[1][name] = call.in.row[name]

\* A row with timestamp 2^31 written by a NumPy that wraps comes back with
\* timestamp -2^31
C10_Witness ==
    /\ call.op = "write_row"
    /\ ~np_strict
    /\ call.in.row["t"] = [hi |-> HalfSigned, lo |-> 0]
    /\ call.out.exc = "none"
    /\ call.out.rows[1]["t"] = [hi |-> -HalfSigned, lo |-> 0]

\* The byte offset of a field in a record of a dtype
OffsetOf(dt, name) == ItemBytes * (FieldPos(dt, name) - 1)

\* The names of the fields of a dtype, in its order
NamesOf(dt) == [k \in 1..Len(dt) |-> dt[k].name]

\* C11: a record is 12 + 4 x (number of enabled flags) bytes wide, decoded
\* and encoded; enabling the normalization flag adds 4 bytes and moves TOF,
\* c1 and c2 by 4 bytes, while t, a, s and r stay where they are.
C11_NormalizationShiftsLayout ==
    /\ (call.op = "write_row" /\ call.out.exc = "none") =>
          /\ Len(call.out.file) = 12 + 4 * Cardinality(call.in.on)
          /\ itemsize(get_dtype(FlagsOf(call.in.on))) = 12 + 4 * Cardinality(call.in.on)
    /\ call.op = "record_layout" =>
          LET off == call.out.off
              with == call.out.with
              before == 4 * (1 + Cardinality(call.in.on \cap
                                 { ATTENUATION_CORRECTION_FLAG, SCATTER_CORRECTION_FLAG,
                                   RANDOM_CORRECTION_FLAG }))
          IN  /\ itemsize(off.dtype) = 12 + 4 * Cardinality(call.in.on)
              /\ itemsize(with.dtype) = itemsize(off.dtype) + 4
              /\ Len(off.file) = itemsize(off.dtype)
              /\ Len(with.file) = Len(off.file) + 4
              /\ \A k \in 1..Len(off.dtype) :
                     OffsetOf(with.dtype, off.dtype[k].name)
                         = OffsetOf(off.dtype, off.dtype[k].name)
                             + (IF off.dtype[k].name \in { "TOF", "c1", "c2" }
                                THEN 4 ELSE 0)
              /\ OffsetOf(with.dtype, "n") = before
              /\ with.file = SubSeq(off.file, 1, before)
                                 \o RecordWord(call.in.record, "n")
                                 \o SubSeq(off.file, before + 1, Len(off.file))

\* The layouts of a record with attenuation and time of flight, without and
\* with normalization: 20 and 24 bytes, n between a and TOF
C11_Witness ==
    /\ call.op = "record_layout"
    /\ call.in.on = { ATTENUATION_CORRECTION_FLAG, TOF_INFORMATION_FLAG }
    /\ NamesOf(call.out.off.dtype) = << "t", "a", "TOF", "c1", "c2" >>
    /\ NamesOf(call.out.with.dtype) = << "t", "a", "n", "TOF", "c1", "c2" >>
    /\ Len(call.out.off.file) = 20
    /\ Len(call.out.with.file) = 24

\* What check_flag is to return for the values of the lines of a flag:
\* FALSE without a line, the integer of the line compared with 0, and
\* ValueError for a value that is no integer
FlagReadsAs(values, result) ==
    IF Len(values) = 0 THEN result.exc = "none" /\ result.val = FALSE
    ELSE IF int(values[1]).exc # "none" THEN result.exc = "ValueError"
    ELSE result.exc = "none" /\ result.val = (int(values[1]).val # 0)

\* C12: check_flag returns false for an absent flag and for the value 0,
\* true for every other integer, and raises for a value that is no integer;
\* get_flags returns that result for each of the five flags and no other key.
C12_CheckFlagReadsInteger ==
    /\ call.op = "check_flag" =>
          FlagReadsAs(ValuesOf(call.in.cdh, call.in.flag), call.out)
    /\ (call.op = "get_flags"
            /\ \A flag \in FlagKeys :
                   /\ Len(ValuesOf(call.in, flag)) <= 1
                   /\ \A k \in 1..Len(ValuesOf(call.in, flag)) :
                          int(ValuesOf(call.in, flag)[k]).exc = "none") =>
          /\ call.out.exc = "none"
          /\ Len(call.out.val) = Cardinality(FlagKeys)
          /\ { call.out.val[k].key : k \in 1..Len(call.out.val) } = FlagKeys
          /\ \A k \in 1..Len(call.out.val) :
                 FlagReadsAs(ValuesOf(call.in, call.out.val[k].key),
                             [exc |-> "none", val |-> call.out.val[k].value])

\* check_flag on a header with the line `Scatter correction flag: 1 0`
\* returns False
C12_Witness ==
    /\ call.op = "check_flag"
    /\ call.in.flag = SCATTER_CORRECTION_FLAG
    /\ ValuesOf(call.in.cdh, SCATTER_CORRECTION_FLAG) = << << "1", SP, "0" >> >>
    /\ call.out.exc = "none"
    /\ call.out.val = FALSE

\* C13: replace_cdh_field is idempotent: replacing the field with the same
\* value in the result of a replacement changes nothing.
C13_ReplaceIdempotent ==
    call.op = "replace_cdh_field" => call.out.twice = call.out.once

\* The value \g<0> replaces `Calibration factor: 1`: the first call gives
\* `Calibration factor: Calibration factor: 1`, the second a longer line
C13_Witness ==
    /\ call.op = "replace_cdh_field"
    /\ call.in.cdh = Line(CALIBRATION_FACTOR, << "1" >>)
    /\ call.in.new_value = << GROUP0 >>
    /\ call.out.once = << CALIBRATION_FACTOR, COLON, SP >>
                           \o Line(CALIBRATION_FACTOR, << "1" >>)
    /\ call.out.twice = << CALIBRATION_FACTOR, COLON, SP >> \o call.out.once

\* C14: replace_cdh_field changes only the lines whose key is the field: the
\* result has the lines of the header, every line with another key (a key
\* that starts with the field, a line that is no key/value pair) is the same
\* at the same position, and a header without a line of the field is
\* returned as it is.
C14_ReplaceChangesOnlyKeyLine ==
    call.op = "replace_cdh_field" =>
        LET before == SplitLines(call.in.cdh)
            after == SplitLines(call.out.once)
        IN  /\ Len(after) = Len(before)
            /\ \A k \in 1..Len(before) :
                   ~HasKey(before[k], CALIBRATION_FACTOR) => after[k] = before[k]
            /\ (\A k \in 1..Len(before) : ~HasKey(before[k], CALIBRATION_FACTOR))
                   => call.out.once = call.in.cdh

\* The header `Calibration factor2: 1`, `Isotope: unknown` has no line of
\* the field, and its first line is rewritten to `Calibration factor: v`
C14_Witness ==
    /\ call.op = "replace_cdh_field"
    /\ call.in.new_value = << "v" >>
    /\ call.in.cdh = JoinLines(<< << CALIBRATION_FACTOR, "2", COLON, SP, "1" >>,
                                  Line("Isotope", << "unknown" >>) >>)
    /\ call.out.once = JoinLines(<< Line(CALIBRATION_FACTOR, << "v" >>),
                                    Line("Isotope", << "unknown" >>) >>)

\* ------------------------------------------------------------------------
\* Properties of the tools
\* ------------------------------------------------------------------------
\* The flags that the input header enables, as the dtype of the run has them
InputFlags ==
    { flag \in FlagKeys : \E j \in 1..Len(cdf_dt) : cdf_dt[j].name = FlagEntry(flag).column }

\* The input header holds no normalization data: its normalization flag is
\* absent or disabled
NoNormalizationData ==
    /\ check_flag(InputHeader, NORMALIZATION_CORRECTION_FLAG).exc = "none"
    /\ ~check_flag(InputHeader, NORMALIZATION_CORRECTION_FLAG).val

\* add_normalization_factors has ended without an exception on such an input
NormalizationAdded ==
    /\ args.tool = ADD_NF /\ pc = "done" /\ exc = "none"
    /\ NoNormalizationData

\* The records of the input, and those of the output under the schema of
\* the input flags plus the normalization flag
InputRows == frombuffer(fs0[IN_CDF].data, cdf_dt)
OutputRows ==
    frombuffer(fs[OUT_CDF].data,
               ExpectedDtype(InputFlags \cup { NORMALIZATION_CORRECTION_FLAG }))

\* C15: add_normalization_factors on an input of N records without
\* normalization data writes N records in the order of the input; record k
\* has the fields of input record k and, as n, the factor of the table for
\* (c1, c2), or 1 when the table has none; the output header reads the
\* normalization flag as 1.
C15_NormalizationFactorsAdded ==
    NormalizationAdded =>
        /\ OutputRows.exc = "none"
        /\ Len(OutputRows.val) = Len(InputRows.val)
        /\ \A k \in 1..Len(InputRows.val) :
               /\ \A name \in DOMAIN InputRows.val[k] :
                      OutputRows.val[k][name] = InputRows.val[k][name]
               /\ OutputRows.val[k]["n"]
                      = IF \E e \in args.nf.lines :
                               /\ e.c1 = InputRows.val[k]["c1"]
                               /\ e.c2 = InputRows.val[k]["c2"]
                        THEN [bits |-> << 0, 0, 192, 63 >>, exact |-> TRUE]
                        ELSE [bits |-> << 0, 0, 128, 63 >>, exact |-> TRUE]
        /\ read_cdh_field(fs[OUT_CDH].data, NORMALIZATION_CORRECTION_FLAG).exc = "none"
        /\ read_cdh_field(fs[OUT_CDH].data, NORMALIZATION_CORRECTION_FLAG).val = << "1" >>

\* A run on the header with `Normalization correction flag: 0` and two
\* records: both records are written with their factors, 1.5 and 1, and the
\* output header holds the flag on two lines, as 0 and as 1, so that reading
\* it raises ValueError
C15_Witness ==
    /\ NormalizationAdded
    /\ Len(InputRows.val) = 2
    /\ Len(OutputRows.val) = 2
    /\ OutputRows.val[1]["n"] = [bits |-> << 0, 0, 192, 63 >>, exact |-> TRUE]
    /\ OutputRows.val[2]["n"] = ONE
    /\ ValuesOf(fs[OUT_CDH].data, NORMALIZATION_CORRECTION_FLAG) = << << "0" >>, << "1" >> >>
    /\ read_cdh_field(fs[OUT_CDH].data, NORMALIZATION_CORRECTION_FLAG).exc = "ValueError"

\* ------------------------------------------------------------------------
\* One tool after another: the output pair of a run is the input of the next
\* ------------------------------------------------------------------------
ADD_RF == "add_random_factors"

\* The directories of the two compositions and their files: the pair between
\* the two runs (temp) and the final pair (output)
DIR_NR == << "nr" >>
DIR_RN == << "rn" >>
TEMP_CDH(dir) == join(dir, << "temp.Cdh" >>)
TEMP_CDF(dir) == join(dir, << "temp.Cdf" >>)
OUTPUT_CDH(dir) == join(dir, << "output.Cdh" >>)
OUTPUT_CDF(dir) == join(dir, << "output.Cdf" >>)

ChainPaths ==
    { IN_CDH, IN_CDF }
        \cup UNION { { TEMP_CDH(dir), TEMP_CDF(dir), OUTPUT_CDH(dir), OUTPUT_CDF(dir) } :
                       dir \in { DIR_NR, DIR_RN } }

\* The random correction map: 0.3 for the crystals (1, 2), as in the tests,
\* and 0.1875 elsewhere
RF == [lines |-> { [c_min |-> PyInt(1), c_max |-> PyInt(2),
                    r |-> [bits |-> << 154, 153, 153, 62 >>, exact |-> TRUE]] },
       other |-> [bits |-> << 0, 0, 64, 62 >>, exact |-> TRUE]]

\* The arguments of one run; rest holds the runs that follow it
Run(tool, cdh_path, output_cdh, output_cdf, rest) ==
    [tool |-> tool, cdh_path |-> cdh_path, output_cdh |-> output_cdh,
     output_cdf |-> output_cdf, nf |-> NF, rf |-> RF, rest |-> rest]

\* first, then second, in the directory dir; then the runs of rest
Composition(first, second, dir, rest) ==
    Run(first, IN_CDH, TEMP_CDH(dir), TEMP_CDF(dir),
        << Run(second, TEMP_CDH(dir), OUTPUT_CDH(dir), OUTPUT_CDF(dir), rest) >>)

\* Normalization then random factors in DIR_NR, and after it random then
\* normalization factors in DIR_RN, both from the same input pair
BothCompositions ==
    Composition(ADD_NF, ADD_RF, DIR_NR,
                << Composition(ADD_RF, ADD_NF, DIR_RN, << >>) >>)

\* The input pairs of the compositions: a header without flag lines or with
\* some, with a trailing newline, with the normalization flag set to 0
ChainScenarios ==
    { [variation |-> v, on |-> on, records |-> rs] :
        v \in { "plain", "trailing_newline", "reversed" },
        on \in { {}, { ATTENUATION_CORRECTION_FLAG, TOF_INFORMATION_FLAG },
                 { NORMALIZATION_CORRECTION_FLAG }, { RANDOM_CORRECTION_FLAG } },
        rs \in RecordSeqs }
    \cup { [variation |-> "flag_0", on |-> {}, records |-> rs] : rs \in RecordSeqs }

\* The pc at which a tool starts
StartOf(tool) == IF tool = ADD_NF THEN "read_csv" ELSE "start"

ChainInit ==
    \E sc \in ChainScenarios :
        /\ fs = [path \in ChainPaths |->
                    CASE path = IN_CDH -> File(Header(sc.variation, sc.on))
                      [] path = IN_CDF -> File(Binary(sc.records, sc.on))
                      [] OTHER -> Absent]
        /\ fs0 = fs
        /\ args = BothCompositions
        /\ pc = StartOf(ADD_NF)
        /\ np_strict \in BOOLEAN
        /\ exc = "none"
        /\ raised = "none"
        /\ cdh_content = << >>
        /\ cdf_dt = << >>
        /\ cdf_dd = << >>
        /\ nread = 0
        /\ progress = 0
        /\ calls = << >>
        /\ written = << >>
        /\ call = NoCall
        /\ suspended = NoInvocation

\* A run has returned and the next tool is called on its output pair
NextRun ==
    /\ pc = "done"
    /\ exc = "none"
    /\ Len(args.rest) > 0
    /\ args' = args.rest[1]
    /\ pc' = StartOf(args.rest[1].tool)
    /\ cdh_content' = << >>
    /\ cdf_dt' = << >>
    /\ cdf_dd' = << >>
    /\ nread' = 0
    /\ progress' = 0
    /\ calls' = << >>
    /\ written' = << >>
    /\ UNCHANGED << np_strict, suspended, fs0, fs, exc, raised, call >>

ChainNext ==
    \/ ReadCsv
    \/ GetContent
    \/ OpenCdh
    \/ WriteCdh
    \/ OpenCdf
    \/ Row
    \/ EndOfRows
    \/ NextRun

ChainSpec == ChainInit /\ [][ChainNext]_vars

\* The input header enables neither the normalization nor the random
\* correction
NeitherCorrection ==
    \A flag \in { NORMALIZATION_CORRECTION_FLAG, RANDOM_CORRECTION_FLAG } :
        /\ check_flag(InputHeader, flag).exc = "none"
        /\ ~check_flag(InputHeader, flag).val

\* The runs have come to their end: the last one has returned, or one has
\* ended with an exception
CompositionsEnded == pc = "done" /\ (exc # "none" \/ Len(args.rest) = 0)

\* The records of the output pair in dir, decoded under the schema of its
\* header
OutputDtype(dir) == get_dtype(get_flags(fs[OUTPUT_CDH(dir)].data).val)
OutputRecords(dir) == frombuffer(fs[OUTPUT_CDF(dir)].data, OutputDtype(dir))

\* C16: adding normalization factors and adding random factors commute: from
\* an input with neither correction both orders end with an output whose
\* header enables both flags, and the records of the two outputs decode,
\* each under the schema of its own header, to the same fields in the same
\* order with the same values.
C16_FactorsCommute ==
    (NeitherCorrection /\ CompositionsEnded) =>
        /\ exc = "none"
        /\ \A dir \in { DIR_NR, DIR_RN } :
               /\ fs[OUTPUT_CDH(dir)].exists /\ fs[OUTPUT_CDF(dir)].exists
               /\ get_flags(fs[OUTPUT_CDH(dir)].data).exc = "none"
               /\ \A flag \in { NORMALIZATION_CORRECTION_FLAG, RANDOM_CORRECTION_FLAG } :
                      check_flag(fs[OUTPUT_CDH(dir)].data, flag).val
               /\ OutputRecords(dir).exc = "none"
        /\ OutputDtype(DIR_NR) = OutputDtype(DIR_RN)
        /\ OutputRecords(DIR_NR).val = OutputRecords(DIR_RN).val

\* From the header with `Normalization correction flag: 0` the first run,
\* add_normalization_factors, writes a header with that flag on two lines;
\* the second run, add_random_factors, ends with ValueError when it reads the
\* flags of that header, and no output pair exists
C16_Witness ==
    /\ NeitherCorrection /\ CompositionsEnded
    /\ args.tool = ADD_RF /\ args.cdh_path = TEMP_CDH(DIR_NR)
    /\ exc = "ValueError"
    /\ Len(fs0[IN_CDF].data) > 0
    /\ ValuesOf(fs[TEMP_CDH(DIR_NR)].data, NORMALIZATION_CORRECTION_FLAG)
           = << << "0" >>, << "1" >> >>
    /\ get_flags(fs[TEMP_CDH(DIR_NR)].data).exc = "ValueError"
    /\ ~fs[OUTPUT_CDH(DIR_NR)].exists /\ ~fs[OUTPUT_CDF(DIR_NR)].exists

\* The record of the output binary at index i (from 0)
OutputRecord(i) ==
    SubSeq(fs[OUT_CDF].data, i * itemsize(cdf_dt) + 1, (i + 1) * itemsize(cdf_dt))

\* replicate has ended without an exception
Replicated == args.tool = REPLICATE /\ pc = "done" /\ exc = "none"

\* C17: replicate on an input of N records writes a binary of N records,
\* each equal to some record of the input, and a header whose lines are those
\* of the input header except for the `Data filename` field, which holds the
\* base name of the output binary.
C17_ReplicateSamplesRecords ==
    Replicated =>
        /\ Len(fs[OUT_CDF].data) = Len(fs0[IN_CDF].data)
        /\ \A k \in 0..(Len(cdf_dd) - 1) :
               \E i \in 0..(Len(cdf_dd) - 1) : OutputRecord(k) = InputRecord(i)
        /\ Len(SplitLines(fs[OUT_CDH].data)) = Len(SplitLines(InputHeader))
        /\ \A k \in 1..Len(SplitLines(InputHeader)) :
               IF HasKey(SplitLines(InputHeader)[k], DATA_FILENAME)
               THEN SplitLines(fs[OUT_CDH].data)[k] = Line(DATA_FILENAME, basename(OUT_CDF))
               ELSE SplitLines(fs[OUT_CDH].data)[k] = SplitLines(InputHeader)[k]

\* A run of replicate on two different records that wrote the first one
\* twice, and whose output header has `Data filename: out.Cdf` in the place
\* of the line `Data filename2: old.Cdf` of the input header
C17_Witness ==
    /\ Replicated
    /\ Len(cdf_dd) = 2
    /\ InputRecord(0) # InputRecord(1)
    /\ fs[OUT_CDF].data = InputRecord(0) \o InputRecord(0)
    /\ SplitLines(InputHeader)[2] = << DATA_FILENAME, "2", COLON, SP, "old.Cdf" >>
    /\ SplitLines(fs[OUT_CDH].data)[2] = Line(DATA_FILENAME, basename(OUT_CDF))

\* ------------------------------------------------------------------------
\* Any arguments: the output paths may be the paths of the input pair
\* ------------------------------------------------------------------------
AnyPathInit ==
    \E tool \in { UPDATE, REPLICATE, ADD_NF },
       on \in { {}, { ATTENUATION_CORRECTION_FLAG, TOF_INFORMATION_FLAG } },
       records \in RecordSeqs,
       output_cdh \in { OUT_CDH, IN_CDH, IN_CDF },
       output_cdf \in { OUT_CDF, IN_CDF, IN_CDH } :
        /\ fs = [path \in Paths |->
                    CASE path = IN_CDH -> File(Header("plain", on))
                      [] path = IN_CDF -> File(Binary(records, on))
                      [] OTHER -> Absent]
        /\ fs0 = fs
        /\ args = [tool |-> tool, cdh_path |-> IN_CDH,
                   output_cdh |-> output_cdh, output_cdf |-> output_cdf, nf |-> NF]
        /\ pc = StartOf(tool)
        /\ np_strict \in BOOLEAN
        /\ exc = "none"
        /\ raised = "none"
        /\ cdh_content = << >>
        /\ cdf_dt = << >>
        /\ cdf_dd = << >>
        /\ nread = 0
        /\ progress = 0
        /\ calls = << >>
        /\ written = << >>
        /\ call = NoCall
        /\ suspended = NoInvocation

AnyPathSpec == AnyPathInit /\ [][Next]_vars

\* The output paths are not paths of the input pair
OutputsApart ==
    { args.output_cdh, args.output_cdf } \cap { IN_CDH, IN_CDF } = {}

\* C18: the tools are non-destructive: whatever the arguments, the input
\* header file and the input binary file it names keep their content.
C18_InputsNeverChange ==
    /\ fs[IN_CDH] = fs0[IN_CDH]
    /\ fs[IN_CDF] = fs0[IN_CDF]

\* update_castor_datafile with output_cdf set to the path of the input
\* binary, and a callback that keeps record 0 and stops on record 1: the run
\* ends without an exception and the input binary has lost its second record
C18_Witness ==
    /\ args.tool = UPDATE /\ pc = "done" /\ exc = "none"
    /\ args.output_cdf = IN_CDF /\ args.output_cdh = OUT_CDH
    /\ calls = << "row", STOP >>
    /\ Len(fs0[IN_CDF].data) = 2 * itemsize(cdf_dt)
    /\ fs[IN_CDF].data = SubSeq(fs0[IN_CDF].data, 1, itemsize(cdf_dt))

\* ------------------------------------------------------------------------
\* Two invocations at the same time
\* ------------------------------------------------------------------------
TRUNCATE == "truncate"

\* The output pair of the second invocation
OUT2_CDH == join(DIR, << "out2.Cdh" >>)
OUT2_CDF == join(DIR, << "out2.Cdf" >>)

\* What an invocation holds of its own: its arguments and callbacks, where
\* it is, and the local variables of its functions
Locals(a, at, e, r, content, dt, dd, n, p, c, w) ==
    [args |-> a, pc |-> at, exc |-> e, raised |-> r, cdh_content |-> content,
     cdf_dt |-> dt, cdf_dd |-> dd, nread |-> n, progress |-> p, calls |-> c,
     written |-> w]

Running ==
    Locals(args, pc, exc, raised, cdh_content, cdf_dt, cdf_dd, nread, progress,
           calls, written)

\* An invocation that has not begun
Invocation(tool, number_of_events, output_cdh, output_cdf) ==
    Locals([tool |-> tool, cdh_path |-> IN_CDH, output_cdh |-> output_cdh,
            output_cdf |-> output_cdf, nf |-> NF,
            number_of_events |-> number_of_events],
           StartOf(tool), "none", "none", << >>, << >>, << >>, 0, 0, << >>, << >>)

\* The tools of the two invocations: truncate with every number of events
\* up to one more than the input has, and add_normalization_factors
ToolCalls ==
    { [tool |-> TRUNCATE, number_of_events |-> n] : n \in 0..(MaxRecords + 1) }
        \cup { [tool |-> ADD_NF, number_of_events |-> 0] }

\* Both invocations read the same input pair; the second one, if there is
\* one, writes to an output pair of its own.
\* The input binaries of the two invocations: one of every length, records
\* 1 and 2 in turn
TurnRecords == { [k \in 1..n |-> IF k % 2 = 1 THEN 1 ELSE 2] : n \in 0..MaxRecords }

TwoInit ==
    \E first \in ToolCalls, records \in TurnRecords,
       on \in { {}, { ATTENUATION_CORRECTION_FLAG, TOF_INFORMATION_FLAG } },
       second \in { NoInvocation }
           \cup { Invocation(t.tool, t.number_of_events, OUT2_CDH, OUT2_CDF) :
                    t \in ToolCalls } :
        /\ fs = [path \in Paths \cup { OUT2_CDH, OUT2_CDF } |->
                    CASE path = IN_CDH -> File(Header("plain", on))
                      [] path = IN_CDF -> File(Binary(records, on))
                      [] OTHER -> Absent]
        /\ fs0 = fs
        /\ suspended = second
        /\ args = Invocation(first.tool, first.number_of_events, OUT_CDH, OUT_CDF).args
        /\ pc = StartOf(first.tool)
        /\ np_strict \in BOOLEAN
        /\ exc = "none"
        /\ raised = "none"
        /\ cdh_content = << >>
        /\ cdf_dt = << >>
        /\ cdf_dd = << >>
        /\ nread = 0
        /\ progress = 0
        /\ calls = << >>
        /\ written = << >>
        /\ call = NoCall

\* The scheduler takes the running invocation off and puts the other one on
Switch ==
    /\ suspended.pc \notin { "none", "done" }
    /\ suspended' = Running
    /\ args' = suspended.args
    /\ pc' = suspended.pc
    /\ exc' = suspended.exc
    /\ raised' = suspended.raised
    /\ cdh_content' = suspended.cdh_content
    /\ cdf_dt' = suspended.cdf_dt
    /\ cdf_dd' = suspended.cdf_dd
    /\ nread' = suspended.nread
    /\ progress' = suspended.progress
    /\ calls' = suspended.calls
    /\ written' = suspended.written
    /\ UNCHANGED << np_strict, fs0, fs, call >>

TwoNext ==
    \/ ReadCsv
    \/ GetContent
    \/ OpenCdh
    \/ WriteCdh
    \/ OpenCdf
    \/ Row
    \/ EndOfRows
    \/ Switch

TwoSpec == TwoInit /\ [][TwoNext]_vars

\* The invocations of a state
Invocations == { Running } \cup ({ suspended } \ { NoInvocation })

\* What an invocation that runs alone leaves in its output header: the lines
\* of the input header with the `Data filename` set to the base name of its
\* output binary and, for truncate, the `Number of events` set to its
\* number; for add_normalization_factors the flag line comes after them
AloneHeaderLines(inv) ==
    [k \in 1..Len(SplitLines(InputHeader)) |->
        IF HasKey(SplitLines(InputHeader)[k], DATA_FILENAME)
        THEN Line(DATA_FILENAME, basename(inv.args.output_cdf))
        ELSE IF inv.args.tool = TRUNCATE
                  /\ HasKey(SplitLines(InputHeader)[k], NUMBER_OF_EVENTS)
        THEN Line(NUMBER_OF_EVENTS, << str(inv.args.number_of_events) >>)
        ELSE SplitLines(InputHeader)[k]]
        \o (IF inv.args.tool = ADD_NF
            THEN << Line(NORMALIZATION_CORRECTION_FLAG, << "1" >>) >>
            ELSE << >>)

\* What an invocation that runs alone leaves in its output binary: for
\* truncate the first number_of_events records of the input (all of them if
\* it has fewer); for add_normalization_factors every record with its
\* factor, 1.5 for the crystals (1, 2) and 1 otherwise, after the flag
\* columns that precede n
AloneRecord(inv, k) ==
    LET w == itemsize(inv.cdf_dt)
        record == SubSeq(fs0[IN_CDF].data, (k - 1) * w + 1, k * w)
        c1 == SubSeq(record, w - 7, w - 4)
    IN  IF inv.args.tool = TRUNCATE THEN record
        ELSE SubSeq(record, 1, OffsetOf(inv.cdf_dt, IF w = 12 THEN "c1" ELSE "TOF"))
                 \o (IF c1 = << 1, 0, 0, 0 >> THEN << 0, 0, 192, 63 >> ELSE ONE.bits)
                 \o SubSeq(record, OffsetOf(inv.cdf_dt, IF w = 12 THEN "c1" ELSE "TOF") + 1, w)

RECURSIVE AloneRecords(_, _, _)
AloneRecords(inv, k, last) ==
    IF k > last THEN << >>
    ELSE AloneRecord(inv, k) \o AloneRecords(inv, k + 1, last)

AloneBinary(inv) ==
    LET total == Len(fs0[IN_CDF].data) \div itemsize(inv.cdf_dt)
    IN  AloneRecords(inv, 1,
                     IF inv.args.tool = TRUNCATE /\ inv.args.number_of_events < total
                     THEN inv.args.number_of_events ELSE total)

\* C19: two invocations that run at the same time on the same input pair,
\* each with its own callbacks and its own output pair, do not interfere:
\* however their steps interleave, each ends without an exception and leaves
\* in its output header and output binary what it leaves when it runs alone.
C19_ConcurrentRunsIndependent ==
    \A inv \in Invocations :
        inv.pc = "done" =>
            /\ inv.exc = "none"
            /\ SplitLines(fs[inv.args.output_cdh].data) = AloneHeaderLines(inv)
            /\ fs[inv.args.output_cdf].data = AloneBinary(inv)

\* truncate to 1 record has run from start to end on an input of two records
\* while truncate to 2 records, which had begun before, is in its loop with
\* one record written; each output binary holds the first record
C19_Witness ==
    /\ pc = "done" /\ exc = "none"
    /\ args.tool = TRUNCATE /\ args.number_of_events = 1
    /\ suspended # NoInvocation
    /\ suspended.pc = "loop" /\ suspended.nread = 1
    /\ suspended.args.tool = TRUNCATE /\ suspended.args.number_of_events = 2
    /\ Len(cdf_dd) = 2
    /\ calls = << "row", STOP >>
    /\ fs[args.output_cdf].data = InputRecord(0)
    /\ fs[suspended.args.output_cdf].data = InputRecord(0)
    /\ args.output_cdf # suspended.args.output_cdf

\* ------------------------------------------------------------------------
\* How the loop of write_new_cdf_file ends
\* ------------------------------------------------------------------------
\* The callback ended the loop with its last call: by the stop signal, or by
\* another exception
EXCEPTION == "Exception"
LastCallIs(kind) == Len(calls) > 0 /\ calls[Len(calls)] = kind

\* The terminal states: every record was handed to the callback and none
\* stopped the loop; the callback raised the stop signal; the callback, or
\* the encoding of the row it returned, raised another exception
Draining ==
    /\ pc = "done" /\ exc = "none"
    /\ Positions(STOP) = {} /\ Len(calls) = Len(cdf_dd)
Stopped == pc = "done" /\ exc = "none" /\ LastCallIs(STOP)
Failed == pc = "done" /\ exc # "none" /\ (LastCallIs(EXCEPTION) \/ LastCallIs("row"))

\* The callback is called at most once per record, each call on the next
\* index; a stop signal or an exception is the last call, and the rows
\* written are those of earlier indices
CallbackOncePerIndex ==
    /\ nread = Len(calls)
    /\ Len(calls) <= Len(cdf_dd)
    /\ Positions(STOP) \cup Positions(EXCEPTION) \subseteq { Len(calls) }
    /\ (LastCallIs(STOP) \/ LastCallIs(EXCEPTION)) =>
           /\ pc = "done"
           /\ \A j \in 1..Len(written) : written[j].index < Len(calls) - 1
           /\ fs[args.output_cdf].data = EncodingsOf(written)

\* C20: the loop ends in exactly one of two terminal states, Draining or
\* Stopped; the callback is called at most once per record, on the indices
\* in increasing order, and after the stop signal it is not called again and
\* nothing more is written.
C20_TwoTerminalStates ==
    LoopStarted =>
        /\ CallbackOncePerIndex
        /\ pc = "done" => (Draining /\ ~Stopped) \/ (Stopped /\ ~Draining)

\* C20 as amended: the loop always ends, in exactly one of Draining, Stopped
\* and Failed.  It ends because in the loop a step can always be taken, and
\* a step that stays in the loop takes the next of the records, of which
\* there are Len(cdf_dd).
C20_ThreeTerminalStates ==
    /\ [](LoopStarted =>
             /\ CallbackOncePerIndex
             /\ pc = "done" =>
                    \/ Draining /\ ~Stopped /\ ~Failed
                    \/ Stopped /\ ~Draining /\ ~Failed
                    \/ Failed /\ ~Draining /\ ~Stopped
             /\ pc = "loop" => ENABLED Next)
    /\ [][pc = "loop" => (pc' = "done" \/ (pc' = "loop" /\ nread' = nread + 1))]_vars

\* The callback kept record 0 and raised an exception on record 1 of two:
\* the run has ended with that exception, the output holds record 0, and the
\* loop is neither Draining nor Stopped
C20_Witness ==
    /\ args.tool = UPDATE
    /\ calls = << "row", EXCEPTION >>
    /\ Len(cdf_dd) = 2
    /\ Failed /\ ~Draining /\ ~Stopped
    /\ exc = EXCEPTION
    /\ fs[OUT_CDF].data = InputRecord(0)

\* ------------------------------------------------------------------------
\* Cancellation and record boundaries
\* ------------------------------------------------------------------------
DEL_COLUMN == "del_column"

\* write_row writes the row to its end
WholeRecord(row) == write_row(row, << >>).exc = "none"

\* C21: cancellation acts at record boundaries only: when the loop has
\* ended Stopped or Draining, the output binary is the encodings of the rows
\* written, every one of them written to its end, so that its length is the
\* sum of their widths; the record the stop signal was raised on left no
\* byte in it.
C21_StopLeavesWholeRecords ==
    (LoopStarted /\ (Stopped \/ Draining)) =>
        /\ \A j \in 1..Len(written) : WholeRecord(written[j].row)
        /\ fs[args.output_cdf].data = EncodingsOf(written)
        /\ LastCallIs(STOP) =>
               \A j \in 1..Len(written) : written[j].index < Len(calls) - 1
        /\ args.tool \in { UPDATE, REPLICATE } =>
               Len(fs[args.output_cdf].data) = Len(written) * itemsize(cdf_dt)

\* A callback that may drop c2 kept record 0 whole and raised the stop
\* signal on record 1: the output is record 0, whole
C21_Witness ==
    /\ args.tool = DEL_COLUMN /\ args.column = "c2"
    /\ Stopped
    /\ calls = << "row", STOP >>
    /\ Len(written) = 1 /\ WholeRecord(written[1].row)
    /\ fs[OUT_CDF].data = InputRecord(0)
    /\ Len(fs[OUT_CDF].data) = itemsize(cdf_dt)

\* ------------------------------------------------------------------------
\* The progress counter
\* ------------------------------------------------------------------------
\* C22: in a run that no exception ended, the progress counter equals the
\* number of records read and passed to the callback so far, whatever the
\* callback did with them: returned a row, returned None, or raised the stop
\* signal.
C22_ProgressCountsRecordsRead ==
    (LoopStarted /\ exc = "none") =>
        /\ nread = Len(calls)
        /\ progress = nread

\* The callback kept record 0 and raised the stop signal on record 1: two
\* records were read and the counter stands at 1
C22_Witness ==
    /\ args.tool = UPDATE /\ Stopped
    /\ calls = << "row", STOP >>
    /\ nread = 2
    /\ progress = 1

\* ------------------------------------------------------------------------
\* The order in which the output pair is produced
\* ------------------------------------------------------------------------
\* The header callback has been called
HeaderTransformed == call.op = "update_cdh"

\* The result of the header callback is what the output header holds
HeaderPersisted ==
    /\ HeaderTransformed
    /\ call.out.exc = "none"
    /\ fs[OUT_CDH] = File(call.out.val)

\* The input header passed validation, and the input binary was read under
\* the dtype of its flags
InputRead ==
    /\ fs0[IN_CDH].exists /\ fs0[IN_CDF].exists
    /\ cdh_content = InputHeader
    /\ \A checked \in { CheckHeader(InputHeader) } :
           /\ checked.exc = "none"
           /\ cdf_dt = get_dtype(checked.flags)
    /\ Len(fs0[IN_CDF].data) % itemsize(cdf_dt) = 0
    /\ Len(cdf_dd) = Len(fs0[IN_CDF].data) \div itemsize(cdf_dt)

\* C23: the header callback is passed the input header with `Data filename`
\* set to the base name of the output binary, and what it returns is what
\* is persisted; the header is persisted before the output binary is opened
\* or a record written to it; no output file is touched before the input
\* header passed validation and the input binary was read.
C23_HeaderBeforeRecords ==
    /\ HeaderTransformed =>
          /\ call.in = replace_cdh_field(cdh_content, DATA_FILENAME, basename(OUT_CDF))
          /\ Len(ValuesOf(call.in, DATA_FILENAME)) >= 1
          /\ \A k \in 1..Len(ValuesOf(call.in, DATA_FILENAME)) :
                 ValuesOf(call.in, DATA_FILENAME)[k] = basename(OUT_CDF)
          /\ call.out = update_cdh(call.in)
          /\ call.out.exc = "none" => HeaderPersisted
          /\ call.out.exc # "none" => (pc = "done" /\ exc = call.out.exc)
    /\ (fs[OUT_CDF] # fs0[OUT_CDF] \/ Len(written) > 0 \/ Len(calls) > 0) =>
          HeaderPersisted
    /\ ~OutputsUntouched => InputRead
    /\ pc \in { "read_csv", "start" } => OutputsUntouched

\* add_normalization_factors has written its first record: its header
\* callback was passed a text that names out.Cdf where the input header
\* names in.Cdf, and the output header holds what the callback returned
C23_Witness ==
    /\ args.tool = ADD_NF /\ pc = "loop"
    /\ Len(written) = 1
    /\ ValuesOf(InputHeader, DATA_FILENAME) = << << "in.Cdf" >> >>
    /\ ValuesOf(call.in, DATA_FILENAME) = << << "out.Cdf" >> >>
    /\ call.out.val # call.in
    /\ HeaderPersisted

\* ------------------------------------------------------------------------
\* The header callbacks that append a flag
\* ------------------------------------------------------------------------
\* The header holds the flag on one line, with a non-zero integer as value
FlagEnabledIn(cdh, flag) ==
    /\ Len(ValuesOf(cdh, flag)) = 1
    /\ int(ValuesOf(cdh, flag)[1]).exc = "none"
    /\ int(ValuesOf(cdh, flag)[1]).val # 0

\* C24: the header callback that appends a flag raises ValueError on every
\* header that holds the flag with a non-zero integer value; on a header
\* without the flag it returns the header followed by the line `flag: 1`,
\* with a line terminator in between only where the header does not end
\* with one.
C24_AppendFlagChecksEnabled ==
    call.op = "update_cdh_of_flag" =>
        /\ FlagEnabledIn(call.in.cdh, call.in.flag) => call.out.exc = "ValueError"
        /\ Len(ValuesOf(call.in.cdh, call.in.flag)) = 0 =>
               /\ call.out.exc = "none"
               /\ call.out.val =
                      call.in.cdh
                          \o (IF call.in.cdh[Len(call.in.cdh)] = NL THEN << >> ELSE << NL >>)
                          \o Line(call.in.flag, << "1" >>)

\* The callback of add_normalization_factors on a header that holds
\* `Normalization correction flag: 2`: no error, and a second line of the
\* flag in its result
C24_Witness ==
    /\ call.op = "update_cdh_of_flag"
    /\ call.in.flag = NORMALIZATION_CORRECTION_FLAG
    /\ ValuesOf(call.in.cdh, call.in.flag) = << << "2" >> >>
    /\ check_flag(call.in.cdh, call.in.flag) = Ok(TRUE)
    /\ call.out.exc = "none"
    /\ ValuesOf(call.out.val, call.in.flag) = << << "2" >>, << "1" >> >>

\* ------------------------------------------------------------------------
\* The length of the input binary
\* ------------------------------------------------------------------------
\* The input pair exists and its header passes the checks of
\* get_cdf_and_cdh_content_from_file
HeaderAccepted ==
    /\ fs0[IN_CDH].exists /\ fs0[IN_CDF].exists
    /\ CheckHeader(InputHeader).exc = "none"
    /\ get_cdf_path(InputHeader, IN_CDH) = Ok(IN_CDF)

\* The record width that the flags of the input header give
InputWidth == itemsize(get_dtype(CheckHeader(InputHeader).flags))

\* C25: the number of records is the byte length of the input binary
\* divided by the record width of the input header's flags; when the length
\* is not a multiple of the width the run ends with an exception before the
\* row callback is called and before any output file is touched.
C25_RemainderIsFatal ==
    (fs0[IN_CDH].exists /\ fs0[IN_CDF].exists) =>
        \A checked \in { CheckHeader(InputHeader) } :
            (checked.exc = "none" /\ get_cdf_path(InputHeader, IN_CDH) = Ok(IN_CDF)) =>
                \A width \in { itemsize(get_dtype(checked.flags)) } :
                    /\ Len(fs0[IN_CDF].data) % width # 0 =>
                           /\ pc \in { "read_csv", "start", "done" }
                           /\ pc = "done" => exc # "none"
                           /\ (pc = "done" /\ ~args.nf.empty) => exc = "ValueError"
                           /\ calls = << >> /\ written = << >> /\ nread = 0
                           /\ cdf_dd = << >>
                           /\ fs = fs0
                    /\ cdh_content # << >> =>
                           /\ Len(fs0[IN_CDF].data) % width = 0
                           /\ Len(cdf_dd) = Len(fs0[IN_CDF].data) \div width

\* update_castor_datafile on a binary of two records and four more bytes
\* has ended with ValueError; the output files that were there are as they
\* were
C25_Witness ==
    /\ args.tool = UPDATE
    /\ pc = "done" /\ exc = "ValueError"
    /\ calls = << >>
    /\ fs0[OUT_CDH].exists /\ fs0[OUT_CDF].exists
    /\ OutputsUntouched
    /\ HeaderAccepted
    /\ Len(fs0[IN_CDF].data) = 2 * InputWidth + 4

\* ------------------------------------------------------------------------
\* The integer fields
\* ------------------------------------------------------------------------
\* C26: the timestamp and the crystal IDs are unsigned 32-bit integers:
\* the four bytes that encode a value of 0..2^32-1 decode to that value,
\* which is not negative, and encoding the decoded row gives the same bytes.
C26_IntegerFieldsUnsigned ==
    call.op = "decode_row" =>
        /\ call.out.row[call.in.field] = call.in.value
        /\ call.out.row[call.in.field].hi >= 0
        /\ call.out.exc = "none"
        /\ call.out.file = call.in.buffer

\* The bytes ff ff ff ff in the place of the timestamp decode to -1, which
\* write_row encodes as the same four bytes
C26_Witness ==
    /\ call.op = "decode_row"
    /\ call.in.field = "t"
    /\ call.in.value = [hi |-> Half - 1, lo |-> Half - 1]
    /\ SubSeq(call.in.buffer, 1, 4) = << 255, 255, 255, 255 >>
    /\ call.out.row["t"] = [hi |-> -1, lo |-> Half - 1]
    /\ call.out.exc = "none"
    /\ call.out.file = call.in.buffer

\* ------------------------------------------------------------------------
\* Rows that lack a field of the schema
\* ------------------------------------------------------------------------
\* The fields of a row in the order of a dtype, each in the bytes of its type
RECURSIVE SchemaBytes(_, _, _)
SchemaBytes(row, dt, k) ==
    IF k > Len(dt) THEN << >>
    ELSE (IF dt[k].type = UINT32_T THEN Int32Bytes(row[dt[k].name])
          ELSE row[dt[k].name].bits)
             \o SchemaBytes(row, dt, k + 1)

\* C27: write_row writes the fields of a row in the order of the schema;
\* for a row that lacks a field of the schema (the timestamp, a crystal ID,
\* or a correction field of an enabled flag) it raises an exception and
\* emits no record narrower than the schema.
C27_MissingFieldIsAnError ==
    call.op = "write_row_lacking" =>
        /\ call.in.missing = "none" =>
               /\ call.out.exc = "none"
               /\ call.out.file = SchemaBytes(call.in.row, call.in.dtype, 1)
        /\ call.in.missing # "none" =>
               /\ call.out.exc # "none"
               /\ call.out.file = << >>

\* A row without the attenuation field, under a schema with attenuation and
\* TOF: no exception, and a record of 16 bytes where the schema has 20
C27_Witness ==
    /\ call.op = "write_row_lacking"
    /\ call.in.missing = "a"
    /\ "a" \in { call.in.dtype[k].name : k \in 1..Len(call.in.dtype) }
    /\ itemsize(call.in.dtype) = 20
    /\ call.out.exc = "none"
    /\ Len(call.out.file) = 16

\* ------------------------------------------------------------------------
\* The acquisition mode
\* ------------------------------------------------------------------------
\* C28: is_list_mode raises ValueError on a header without `Data mode`; on
\* a header with one `Data mode` line it returns True when the value is the
\* token list-mode and False, without an exception, for any other value.
\* max_nb_of_lines_per_event is 1 on a header without the field.  The checks
\* of get_cdf_and_cdh_content_from_file pass only when is_list_mode returns
\* True and max_nb_of_lines_per_event is at most 1.
C28_ListModeDecides ==
    call.op = "is_list_mode" =>
        /\ Len(ValuesOf(call.in, DATA_MODE)) = 0 =>
               call.out.is_list_mode.exc = "ValueError"
        /\ Len(ValuesOf(call.in, DATA_MODE)) = 1 =>
               /\ call.out.is_list_mode.exc = "none"
               /\ call.out.is_list_mode.val
                      = (ValuesOf(call.in, DATA_MODE)[1] = << "list-mode" >>)
        /\ Len(ValuesOf(call.in, MAX_LINES)) = 0 =>
               /\ call.out.max_nb_of_lines_per_event.exc = "none"
               /\ call.out.max_nb_of_lines_per_event.val = 1
        /\ CheckHeader(call.in).exc = "none" =>
               /\ call.out.is_list_mode.exc = "none"
               /\ call.out.is_list_mode.val
               /\ call.out.max_nb_of_lines_per_event.exc = "none"
               /\ call.out.max_nb_of_lines_per_event.val <= 1

\* On a header whose only `Data mode` line is `Data mode: list mode`,
\* is_list_mode raises ValueError
C28_Witness ==
    /\ call.op = "is_list_mode"
    /\ ValuesOf(call.in, DATA_MODE) = << << "list", SP, "mode" >> >>
    /\ call.out.is_list_mode.exc = "ValueError"
    /\ CheckHeader(call.in).exc = "ValueError"

\* ------------------------------------------------------------------------
\* truncate
\* ------------------------------------------------------------------------
\* The number of whole records in the output binary
OutputCount == Len(fs[OUT_CDF].data) \div itemsize(cdf_dt)

\* C29: after truncate to n events has ended on an input of N records whose
\* header has a `Number of events` line, the output binary is the first
\* min(n, N) records of the input, and the `Number of events` of the output
\* header is the number of records in the output binary.
C29_TruncateCountsEvents ==
    (args.tool = TRUNCATE /\ pc = "done" /\ exc = "none"
         /\ Len(ValuesOf(InputHeader, NUMBER_OF_EVENTS)) = 1) =>
        /\ fs[OUT_CDF].data =
               SubSeq(fs0[IN_CDF].data, 1,
                      itemsize(cdf_dt) * (IF args.number_of_events < Len(cdf_dd)
                                          THEN args.number_of_events ELSE Len(cdf_dd)))
        /\ Len(fs[OUT_CDF].data) % itemsize(cdf_dt) = 0
        /\ ValuesOf(fs[OUT_CDH].data, NUMBER_OF_EVENTS) = << << str(OutputCount) >> >>

\* truncate to 3 events has ended on an input of 2 records: the output
\* binary holds the 2 records and the output header says 3
C29_Witness ==
    /\ args.tool = TRUNCATE /\ pc = "done" /\ exc = "none"
    /\ args.number_of_events = 3
    /\ Len(cdf_dd) = 2
    /\ fs[OUT_CDF].data = fs0[IN_CDF].data
    /\ OutputCount = 2
    /\ ValuesOf(fs[OUT_CDH].data, NUMBER_OF_EVENTS) = << << "3" >> >>

\* ------------------------------------------------------------------------
\* The output pair of add_normalization_factors
\* ------------------------------------------------------------------------
\* C30: after add_normalization_factors has ended without an exception, the
\* output header holds the normalization flag on exactly one line, get_flags
\* reads it and finds the flag enabled, and the output binary is as long as
\* the records written times the record width of the output header's flags.
C30_HeaderAndBinaryAgree ==
    (args.tool = ADD_NF /\ pc = "done" /\ exc = "none") =>
        /\ Len(ValuesOf(fs[OUT_CDH].data, NORMALIZATION_CORRECTION_FLAG)) = 1
        /\ \A flags \in { get_flags(fs[OUT_CDH].data) } :
               /\ flags.exc = "none"
               /\ [key |-> NORMALIZATION_CORRECTION_FLAG, value |-> TRUE]
                      \in { flags.val[k] : k \in 1..Len(flags.val) }
               /\ Len(fs[OUT_CDF].data) = Len(written) * itemsize(get_dtype(flags.val))

\* add_normalization_factors has ended without an exception on a header
\* with `Normalization correction flag: 0`: the output header holds the flag
\* twice and get_flags raises ValueError on it, while the output binary has
\* two records with the n column
C30_Witness ==
    /\ args.tool = ADD_NF /\ pc = "done" /\ exc = "none"
    /\ ValuesOf(InputHeader, NORMALIZATION_CORRECTION_FLAG) = << << "0" >> >>
    /\ ValuesOf(fs[OUT_CDH].data, NORMALIZATION_CORRECTION_FLAG)
           = << << "0" >>, << "1" >> >>
    /\ get_flags(fs[OUT_CDH].data).exc = "ValueError"
    /\ Len(written) = 2
    /\ Len(fs[OUT_CDF].data) = 2 * (itemsize(cdf_dt) + ItemBytes)

====
